--------------------------- MODULE VerdictsProofs ---------------------------
(***************************************************************************)
(* The verdicts of the pure layers, proved for every set of requests of    *)
(* the contract's shapes: any machine, log, solve state, sweep and target. *)
(* Each run computes its results by the same functions (PipelineInv); what *)
(* a verdict promises is then a fact about those functions, and the ones   *)
(* that loop are reasoned about by induction over their turns.             *)
(***************************************************************************)
EXTENDS Verdicts, FiniteSetTheorems, NaturalsInduction, WellFoundedInduction, TLAPS

----------------------------------------------------------------------------
(* Loops: a recursive function over a sequence is what its turns make it.  *)

\* A set of numbers that holds 0 and the successor of each member holds all.
LEMMA NatSetInduction ==
  ASSUME NEW S, 0 \in S, \A n \in Nat : n \in S => n + 1 \in S
  PROVE  Nat \subseteq S
  <1> DEFINE T == Nat \ S
  <1> SUFFICES ASSUME T # {} PROVE FALSE
    OBVIOUS
  <1>1. PICK x \in T : \A y \in T : ~(<<y, x>> \in OpToRel(<, Nat))
    <2>1. T \subseteq Nat
      OBVIOUS
    <2> HIDE DEF T
    <2> QED
      BY <2>1, WFMin, NatLessThanWellFounded
  <1>2. \A y \in T : ~(y < x)
    BY <1>1 DEF OpToRel
  <1>3. x # 0 /\ x - 1 \in Nat /\ x - 1 < x
    OBVIOUS
  <1> QED
    BY <1>2, <1>3

\* The values a loop of n turns goes through, from a by the turns in G.
Turns(f, n, a, G) ==
  f = [i \in 0..n |-> IF i = 0 THEN a ELSE G[<<i, f[i - 1]>>]]

\* The same turn by turn, with values in V throughout.
Along(f, n, a, G, V) ==
  /\ f[0] = a
  /\ \A i \in 1..n : f[i] = G[<<i, f[i - 1]>>]
  /\ \A i \in 0..n : f[i] \in V

\* Every loop over values of V that stays in V has such values, one per turn.
LEMMA TurnsExist ==
  ASSUME NEW V, NEW a \in V, NEW n \in Nat, NEW G,
         \A i \in 1..n, v \in V : G[<<i, v>>] \in V
  PROVE  \E f : Turns(f, n, a, G) /\ Along(f, n, a, G, V)
  <1> DEFINE S == {k \in Nat : k <= n => \E f \in [0..k -> V] : Turns(f, k, a, G)}
  <1>1. 0 \in S
    <2>1. Turns([i \in 0..0 |-> a], 0, a, G) /\ [i \in 0..0 |-> a] \in [0..0 -> V]
      BY DEF Turns
    <2> QED
      BY <2>1
  <1>2. ASSUME NEW k \in Nat, k \in S
        PROVE  k + 1 \in S
    <2> SUFFICES ASSUME k + 1 <= n
                 PROVE  \E f \in [0..(k + 1) -> V] : Turns(f, k + 1, a, G)
      OBVIOUS
    <2>1. PICK f \in [0..k -> V] : Turns(f, k, a, G)
      BY <1>2
    <2> DEFINE next == [i \in 0..(k + 1) |-> IF i = k + 1 THEN G[<<k + 1, f[k]>>] ELSE f[i]]
    <2>2. \A i \in 0..k : f[i] = IF i = 0 THEN a ELSE G[<<i, f[i - 1]>>]
      BY <2>1 DEF Turns
    <2>3. ASSUME NEW i \in 0..(k + 1)
          PROVE  next[i] = IF i = 0 THEN a ELSE G[<<i, next[i - 1]>>]
      <3>1. CASE i = k + 1
        <4>1. next[k] = f[k] /\ k + 1 # 0 /\ (k + 1) - 1 = k
          OBVIOUS
        <4> QED
          BY <3>1, <4>1
      <3>2. CASE i \in 0..k
        <4>1. next[i] = f[i] /\ (i # 0 => next[i - 1] = f[i - 1])
          BY <3>2
        <4> QED
          BY <2>2, <3>2, <4>1
      <3> QED
        BY <3>1, <3>2
    <2>4. Turns(next, k + 1, a, G)
      BY <2>3 DEF Turns
    <2>5. next \in [0..(k + 1) -> V]
      <3>1. f[k] \in V
        OBVIOUS
      <3> QED
        BY <3>1
    <2> QED
      BY <2>4, <2>5
  <1> HIDE DEF S
  <1>3. Nat \subseteq S
    BY <1>1, <1>2, NatSetInduction
  <1>4. \E f \in [0..n -> V] : Turns(f, n, a, G)
    BY <1>3 DEF S
  <1>5. PICK f : Turns(f, n, a, G) /\ \A i \in 0..n : f[i] \in V
    BY <1>4
  <1>6. Along(f, n, a, G, V)
    <2>1. \A i \in 0..n : f[i] = IF i = 0 THEN a ELSE G[<<i, f[i - 1]>>]
      BY <1>5 DEF Turns
    <2>2. 0 \in 0..n /\ \A i \in 1..n : i \in 0..n /\ i # 0
      OBVIOUS
    <2>3. f[0] = a /\ \A i \in 1..n : f[i] = G[<<i, f[i - 1]>>]
      BY <2>1, <2>2
    <2> QED
      BY <1>5, <2>3 DEF Along
  <1> QED
    BY <1>5, <1>6

\* Two loops that start alike, and whose every turn keeps them alike, are alike.
LEMMA SameTurns ==
  ASSUME NEW f, NEW g, NEW n \in Nat, f[0] = g[0],
         \A i \in 1..n : f[i - 1] = g[i - 1] => f[i] = g[i]
  PROVE  \A i \in 0..n : f[i] = g[i]
  <1> DEFINE S == {k \in Nat : k <= n => f[k] = g[k]}
  <1>1. 0 \in S
    OBVIOUS
  <1>2. ASSUME NEW k \in Nat, k \in S PROVE k + 1 \in S
    <2> SUFFICES ASSUME k + 1 <= n PROVE f[k + 1] = g[k + 1]
      OBVIOUS
    <2>1. k + 1 \in 1..n /\ (k + 1) - 1 = k /\ f[k] = g[k]
      BY <1>2
    <2> QED
      BY <2>1
  <1> HIDE DEF S
  <1>3. Nat \subseteq S
    BY <1>1, <1>2, NatSetInduction
  <1> QED
    BY <1>3 DEF S

\* One turn of a comprehension with an "if".
KeptOn(out, s, chosen, i) == IF i \in chosen THEN Append(out, s[i]) ELSE out

KeptLoop(f, none, s, chosen, n) ==
  f = [i \in 0..n |-> IF i = 0 THEN none ELSE KeptOn(f[i - 1], s, chosen, i)]

KeptAlong(f, none, s, chosen, n, V) ==
  /\ f[0] = none
  /\ \A i \in 1..n : f[i] = KeptOn(f[i - 1], s, chosen, i)
  /\ \A i \in 0..n : f[i] \in V

\* The loop of a comprehension runs, and every run of it goes turn by turn.
LEMMA KeptLoopRuns ==
  ASSUME NEW V, NEW none \in V, NEW s, NEW chosen, NEW n \in Nat,
         \A i \in 1..n, v \in V : KeptOn(v, s, chosen, i) \in V
  PROVE  /\ \E f : KeptLoop(f, none, s, chosen, n)
         /\ \A f : KeptLoop(f, none, s, chosen, n)
                   => KeptAlong(f, none, s, chosen, n, V)
  <1> DEFINE G == [x \in (1..n) \X V |-> KeptOn(x[2], s, chosen, x[1])]
  <1>1. \A i \in 1..n, v \in V :
           G[<<i, v>>] = KeptOn(v, s, chosen, i) /\ G[<<i, v>>] \in V
    OBVIOUS
  <1> HIDE DEF G
  <1>2. PICK f : Turns(f, n, none, G) /\ Along(f, n, none, G, V)
    BY <1>1, TurnsExist
  <1>3. KeptAlong(f, none, s, chosen, n, V)
    <2>1. f[0] = none /\ \A i \in 0..n : f[i] \in V
      BY <1>2 DEF Along
    <2>2. \A i \in 1..n : i - 1 \in 0..n
      OBVIOUS
    <2>3. \A i \in 1..n : f[i] = KeptOn(f[i - 1], s, chosen, i)
      BY <1>1, <1>2, <2>1, <2>2 DEF Along
    <2> QED
      BY <2>1, <2>3 DEF KeptAlong
  <1>4. KeptLoop(f, none, s, chosen, n)
    <2>1. f = [i \in 0..n |-> f[i]]
      BY <1>2 DEF Turns
    <2>2. \A i \in 0..n :
             f[i] = IF i = 0 THEN none ELSE KeptOn(f[i - 1], s, chosen, i)
      BY <1>3 DEF KeptAlong
    <2> QED
      BY <2>1, <2>2 DEF KeptLoop
  <1>5. ASSUME NEW g, KeptLoop(g, none, s, chosen, n)
        PROVE  KeptAlong(g, none, s, chosen, n, V)
    <2>1. \A i \in 0..n :
             g[i] = IF i = 0 THEN none ELSE KeptOn(g[i - 1], s, chosen, i)
      BY <1>5 DEF KeptLoop
    <2>2. g[0] = none /\ \A i \in 1..n : g[i] = KeptOn(g[i - 1], s, chosen, i)
      BY <2>1
    <2>3. \A i \in 1..n : f[i - 1] = g[i - 1] => f[i] = g[i]
      BY <1>3, <2>2 DEF KeptAlong
    <2>4. \A i \in 0..n : f[i] = g[i]
      BY <1>3, <2>2, <2>3, SameTurns DEF KeptAlong
    <2> QED
      BY <1>3, <2>2, <2>4 DEF KeptAlong
  <1> QED
    BY <1>4, <1>5

\* The kept places, turn by turn.
LEMMA KeptTurns ==
  ASSUME NEW T, NEW s \in Seq(T), NEW chosen
  PROVE  \E n, f :
            /\ n = Len(s) /\ n \in Nat
            /\ KeptAlong(f, <<>>, s, chosen, n, Seq(T))
            /\ Kept(s, chosen) = f[n]
  <1>1. PICK n \in Nat : n = Len(s)
    OBVIOUS
  <1>2. \A i \in 1..n, v \in Seq(T) : KeptOn(v, s, chosen, i) \in Seq(T)
    <2> TAKE i \in 1..n, v \in Seq(T)
    <2>1. s[i] \in T
      BY <1>1
    <2>2. Append(v, s[i]) \in Seq(T)
      BY <2>1
    <2> QED
      BY <2>2 DEF KeptOn
  <1>3. <<>> \in Seq(T)
    OBVIOUS
  <1> DEFINE f == CHOOSE g : KeptLoop(g, <<>>, s, chosen, n)
  <1>4. Kept(s, chosen) = f[n]
    BY <1>1 DEF Kept, KeptLoop, KeptOn
  <1>5. KeptLoop(f, <<>>, s, chosen, n)
    BY <1>2, <1>3, KeptLoopRuns
  <1> HIDE DEF f
  <1>6. KeptAlong(f, <<>>, s, chosen, n, Seq(T))
    BY <1>2, <1>3, <1>5, KeptLoopRuns
  <1> QED
    BY <1>1, <1>4, <1>6

LEMMA AppendAdds ==
  ASSUME NEW T, NEW v \in Seq(T), NEW x
  PROVE  ToSet(Append(v, x)) = ToSet(v) \cup {x}
  <1>1. /\ DOMAIN Append(v, x) = 1..(Len(v) + 1)
        /\ DOMAIN v = 1..Len(v)
        /\ \A i \in 1..Len(v) : Append(v, x)[i] = v[i]
        /\ Append(v, x)[Len(v) + 1] = x
        /\ Len(v) \in Nat
    OBVIOUS
  <1>2. 1..(Len(v) + 1) = 1..Len(v) \cup {Len(v) + 1}
    BY <1>1
  <1> QED
    BY <1>1, <1>2 DEF ToSet

\* A comprehension holds what is at the chosen places, and nothing else.
LEMMA KeptHolds ==
  ASSUME NEW T, NEW s \in Seq(T), NEW chosen
  PROVE  /\ Kept(s, chosen) \in Seq(T)
         /\ ToSet(Kept(s, chosen)) = {s[i] : i \in chosen \cap DOMAIN s}
  <1>0. PICK n \in Nat : \E f : /\ n = Len(s)
                                /\ KeptAlong(f, <<>>, s, chosen, n, Seq(T))
                                /\ Kept(s, chosen) = f[n]
    BY KeptTurns
  <1>1. PICK f : /\ n = Len(s) /\ n \in Nat
                 /\ KeptAlong(f, <<>>, s, chosen, n, Seq(T))
                 /\ Kept(s, chosen) = f[n]
    BY <1>0
  <1>2. DOMAIN s = 1..n
    BY <1>1
  <1> DEFINE S == {k \in Nat : k <= n => ToSet(f[k]) = {s[i] : i \in chosen \cap 1..k}}
  <1>3. 0 \in S
    <2>1. f[0] = <<>> /\ ToSet(<<>>) = {} /\ 1..0 = {}
      BY <1>1 DEF KeptAlong, ToSet
    <2> QED
      BY <2>1
  <1>4. ASSUME NEW k \in Nat, k \in S PROVE k + 1 \in S
    <2> SUFFICES ASSUME k + 1 <= n
                 PROVE  ToSet(f[k + 1]) = {s[i] : i \in chosen \cap 1..(k + 1)}
      OBVIOUS
    <2>1. ToSet(f[k]) = {s[i] : i \in chosen \cap 1..k}
      BY <1>4
    <2>2. f[k] \in Seq(T) /\ f[k + 1] = KeptOn(f[k], s, chosen, k + 1)
      <3>1. k \in 0..n /\ k + 1 \in 1..n /\ (k + 1) - 1 = k
        OBVIOUS
      <3> QED
        BY <1>1, <3>1 DEF KeptAlong
    <2>3. 1..(k + 1) = 1..k \cup {k + 1}
      OBVIOUS
    <2>4. CASE k + 1 \in chosen
      <3>1. ToSet(f[k + 1]) = ToSet(f[k]) \cup {s[k + 1]}
        BY <2>2, <2>4, AppendAdds DEF KeptOn
      <3> QED
        BY <2>1, <2>3, <2>4, <3>1
    <2>5. CASE k + 1 \notin chosen
      BY <2>1, <2>2, <2>3, <2>5 DEF KeptOn
    <2> QED
      BY <2>4, <2>5
  <1> HIDE DEF S
  <1>5. Nat \subseteq S
    BY <1>3, <1>4, NatSetInduction
  <1>6. ToSet(f[n]) = {s[i] : i \in chosen \cap 1..n}
    <2>1. n \in S /\ n <= n
      BY <1>1, <1>5
    <2> QED
      BY <2>1 DEF S
  <1>7. f[n] \in Seq(T)
    BY <1>1 DEF KeptAlong
  <1> QED
    BY <1>1, <1>2, <1>6, <1>7

\* One turn of min and of max.
BestOn(best, s, end, i) ==
  IF i = 1 THEN s[1]
  ELSE IF (IF end = "min" THEN Less(s[i], best) ELSE Less(best, s[i])) THEN s[i] ELSE best

BestLoop(f, s, end, n) == f = [i \in 1..n |-> BestOn(f[i - 1], s, end, i)]

\* The loop of min or max runs; what every run of it has after each turn.
LEMMA BestLoopRuns ==
  ASSUME NEW s, NEW end, NEW n \in Nat \ {0}
  PROVE  \E f : BestLoop(f, s, end, n)
  <1> DEFINE V == {s[i] : i \in 1..n}
             G == [x \in (1..n) \X V |-> BestOn(x[2], s, end, x[1])]
  <1>1. \A i \in 1..n, v \in V :
           G[<<i, v>>] = BestOn(v, s, end, i) /\ G[<<i, v>>] \in V
    BY DEF BestOn
  <1>2. s[1] \in V
    OBVIOUS
  <1> HIDE DEF G, V
  <1>3. PICK f : Turns(f, n, s[1], G) /\ Along(f, n, s[1], G, V)
    BY <1>1, <1>2, TurnsExist
  <1> DEFINE g == [i \in 1..n |-> f[i]]
  <1>4. \A i \in 1..n : f[i] = BestOn(f[i - 1], s, end, i)
    <2> TAKE i \in 1..n
    <2>1. i - 1 \in 0..n
      OBVIOUS
    <2> QED
      BY <1>1, <1>3, <2>1 DEF Along
  <1>5. \A i \in 1..n : BestOn(f[i - 1], s, end, i) = BestOn(g[i - 1], s, end, i)
    <2> TAKE i \in 1..n
    <2>1. CASE i = 1
      BY <2>1 DEF BestOn
    <2>2. CASE i # 1
      <3>1. i - 1 \in 1..n
        BY <2>2
      <3> QED
        BY <3>1
    <2> QED
      BY <2>1, <2>2
  <1>6. g = [i \in 1..n |-> BestOn(g[i - 1], s, end, i)]
    <2>1. \A i \in 1..n : g[i] = BestOn(g[i - 1], s, end, i)
      BY <1>4, <1>5
    <2> HIDE DEF g
    <2>2. g = [i \in 1..n |-> g[i]]
      BY DEF g
    <2> QED
      BY <2>1, <2>2
  <1> QED
    BY <1>6 DEF BestLoop

\* x is a value of the sequence; and when the values are whole numbers, it is
\* the lowest (highest) of them.
EndsAt(x, s, end, n) ==
  /\ \E j \in 1..n : x = s[j]
  /\ (\A i \in 1..n : s[i] \in Int)
       => \A j \in 1..n : IF end = "min" THEN x <= s[j] ELSE s[j] <= x

\* A run of min or max ends at such a value.
LEMMA BestLoopEnds ==
  ASSUME NEW s, NEW end, NEW n \in Nat \ {0}, NEW f, BestLoop(f, s, end, n)
  PROVE  EndsAt(f[n], s, end, n)
  <1> DEFINE Whole == \A i \in 1..n : s[i] \in Int
             Bounds(k) == \A j \in 1..k : IF end = "min" THEN f[k] <= s[j] ELSE s[j] <= f[k]
             S == {k \in Nat : k + 1 <= n => /\ \E j \in 1..(k + 1) : f[k + 1] = s[j]
                                             /\ Whole => Bounds(k + 1)}
  <1>1. \A i \in 1..n : f[i] = BestOn(f[i - 1], s, end, i)
    BY DEF BestLoop
  <1>2. 0 \in S
    <2>1. f[1] = s[1]
      BY <1>1 DEF BestOn
    <2>2. Whole => s[1] <= s[1]
      OBVIOUS
    <2> QED
      BY <2>1, <2>2
  <1>3. ASSUME NEW k \in Nat, k \in S PROVE k + 1 \in S
    <2> SUFFICES ASSUME (k + 1) + 1 <= n
                 PROVE  /\ \E j \in 1..((k + 1) + 1) : f[(k + 1) + 1] = s[j]
                        /\ Whole => Bounds((k + 1) + 1)
      OBVIOUS
    <2> DEFINE m == k + 1
    <2>1. m \in 1..n /\ m + 1 \in 1..n /\ (m + 1) - 1 = m /\ m + 1 # 1
      OBVIOUS
    <2>2. (\E j \in 1..m : f[m] = s[j]) /\ (Whole => Bounds(m))
      BY <1>3
    <2>3. f[m + 1] = IF (IF end = "min" THEN Less(s[m + 1], f[m]) ELSE Less(f[m], s[m + 1]))
                     THEN s[m + 1] ELSE f[m]
      BY <1>1, <2>1 DEF BestOn
    <2>4. \E j \in 1..(m + 1) : f[m + 1] = s[j]
      BY <2>1, <2>2, <2>3
    <2>5. ASSUME Whole PROVE Bounds(m + 1)
      <3>1. f[m] \in Int /\ s[m + 1] \in Int
        BY <2>1, <2>2, <2>5
      <3>2. \A a, b \in Int : Less(a, b) <=> a < b
        BY NonFiniteAssumption DEF Less, Leq, Finite, NonFinite
      <3>3. f[m + 1] = IF (IF end = "min" THEN s[m + 1] < f[m] ELSE f[m] < s[m + 1])
                       THEN s[m + 1] ELSE f[m]
        BY <2>3, <3>1, <3>2
      <3>4. \A j \in 1..(m + 1) : j \in 1..m \/ j = m + 1
        BY <2>1
      <3>5. \A j \in 1..m : s[j] \in Int
        BY <2>1, <2>5
      <3> HIDE DEF m
      <3> QED
        BY <2>2, <2>5, <3>1, <3>3, <3>4, <3>5
    <2> QED
      BY <2>4, <2>5
  <1> HIDE DEF S
  <1>4. Nat \subseteq S
    BY <1>2, <1>3, NatSetInduction
  <1>5. n - 1 \in S /\ (n - 1) + 1 = n
    BY <1>4
  <1> QED
    BY <1>5 DEF S, EndsAt

\* The range of a swept sequence: both ends are samples of it, and no whole
\* number of it lies outside them.
LEMMA LeastAndGreatest ==
  ASSUME NEW T, NEW s \in Seq(T), s # <<>>
  PROVE  /\ \E i \in DOMAIN s : Least(s) = s[i]
         /\ \E i \in DOMAIN s : Greatest(s) = s[i]
         /\ (\A i \in DOMAIN s : s[i] \in Int)
              => \A i \in DOMAIN s : Least(s) <= s[i] /\ s[i] <= Greatest(s)
  <1>1. PICK n \in Nat \ {0} : n = Len(s) /\ DOMAIN s = 1..n
    OBVIOUS
  <1> DEFINE f == CHOOSE g : BestLoop(g, s, "min", n)
             h == CHOOSE g : BestLoop(g, s, "max", n)
  <1>2. Least(s) = f[n]
    BY <1>1 DEF Least, BestLoop, BestOn
  <1>3. Greatest(s) = h[n]
    BY <1>1 DEF Greatest, BestLoop, BestOn
  <1>4. BestLoop(f, s, "min", n) /\ BestLoop(h, s, "max", n)
    BY BestLoopRuns
  <1> HIDE DEF f, h
  <1>5. EndsAt(f[n], s, "min", n) /\ EndsAt(h[n], s, "max", n)
    BY <1>4, BestLoopEnds
  <1>6. /\ \E j \in 1..n : f[n] = s[j]
        /\ (\A i \in 1..n : s[i] \in Int) => \A j \in 1..n : f[n] <= s[j]
    BY <1>5 DEF EndsAt
  <1>7. /\ \E j \in 1..n : h[n] = s[j]
        /\ (\A i \in 1..n : s[i] \in Int) => \A j \in 1..n : s[j] <= h[n]
    BY <1>5 DEF EndsAt
  <1> QED
    BY <1>1, <1>2, <1>3, <1>6, <1>7

----------------------------------------------------------------------------
(* Every run computes its results by the same functions.                   *)

Judged == {"judged", "computed", "merged", "rendered", "exported"}

PhasesAgree ==
  /\ report # None => phase \notin {"launched", "started"}
  /\ bundle # None => phase = "bundled"
  /\ gates # None => phase \in Judged
  /\ metrics # None => phase \in Judged \ {"judged"}
  /\ receipt # None => phase \in {"merged", "rendered", "exported"}
  /\ text # None => phase \in {"rendered", "exported"}

ResultsAgree ==
  /\ request \in Requests
  /\ phase # "launched" =>
       adapter = BuildAdapter(ResolveAdapterKind(request.adapter, request.machine),
                              request.machine)
  /\ phase \notin {"launched", "started"} =>
       /\ Serves
       /\ report = PreflightEnvironment(request.machine, request.environment)
  /\ phase = "bundled" =>
       bundle = BuildDiagnosticsBundle(
                  PreflightEnvironment(request.machine, request.environment), request.log)
  /\ phase \in Judged \cup {"assembled"} =>
       snapshot = AssembleSnapshot(request.held, "snap")
  /\ phase \in Judged =>
       /\ snapshot.arm = "DesignSnapshot"
       /\ gates = EvaluateGates(snapshot, request.parameter)
  /\ phase \in Judged \ {"judged"} =>
       metrics = IF IsRead(snapshot.solved_data)
                 THEN ComputeMetrics(Supplied, snapshot.solved_data, snapshot.intent,
                                     request.reference_impedance)
                 ELSE None
  /\ phase \in {"merged", "rendered", "exported"} =>
       receipt = MergeFindings([i \in DOMAIN gates |-> AsCandidate(gates[i])],
                               request.engine)
  /\ phase \in {"rendered", "exported"} => text = FindingsTemplateText(receipt)

PipelineInv == PhasesAgree /\ ResultsAgree

\* Nothing that was computed is computed again or from anything else: whatever
\* is there is the value of its function at the request (the order in which the
\* layers are called).
THEOREM ResultsAreTheirFunctions == Spec => []PipelineInv
  <1>1. Init => PipelineInv
    BY DEF Init, PipelineInv, PhasesAgree, ResultsAgree, Judged
  <1>2. PipelineInv /\ [Next]_vars => PipelineInv'
    <2> SUFFICES ASSUME PipelineInv, [Next]_vars PROVE PipelineInv'
      OBVIOUS
    <2> USE DEF PipelineInv, PhasesAgree, ResultsAgree, Judged, Move,
                machineVars, designVars
    <2>1. CASE Start
      BY <2>1 DEF Start
    <2>2. CASE Report
      BY <2>2 DEF Report, Serves
    <2>3. CASE Bundle
      BY <2>3 DEF Bundle, Serves
    <2>4. CASE Assemble
      BY <2>4 DEF Assemble, Serves
    <2>5. CASE Judge
      BY <2>5 DEF Judge, Serves
    <2>6. CASE Compute
      BY <2>6 DEF Compute, Serves, Supplied
    <2>7. CASE Merge
      BY <2>7 DEF Merge, Serves, Supplied
    <2>8. CASE Render
      BY <2>8 DEF Render, Serves, Supplied
    <2>9. CASE Export
      BY <2>9 DEF Export, Serves, Supplied
    <2>10. CASE UNCHANGED vars
      BY <2>10 DEF vars, Serves, Supplied
    <2> QED
      BY <2>1, <2>2, <2>3, <2>4, <2>5, <2>6, <2>7, <2>8, <2>9, <2>10 DEF Next
  <1> QED
    BY <1>1, <1>2, PTL DEF Spec

----------------------------------------------------------------------------
(* The machine: the report and what the start refused.                     *)

LEMMA VersionIsPair ==
  ASSUME NEW v \in Version
  PROVE  /\ v = <<v[1], v[2]>> /\ v[1] \in Nat /\ v[2] \in Nat
         /\ v # None /\ v # Unparseable
  BY UnparseableAssumption DEF Version

LEMMA OrderIsTotal ==
  ASSUME NEW v \in Version, NEW a \in Nat, NEW b \in Nat,
         ~ Before(v, <<a, b>>), v # <<a, b>>
  PROVE  Before(<<a, b>>, v)
  BY VersionIsPair DEF Before

\* A component is judged "ok" exactly at or above its floor.
LEMMA StatusIsTheFloor ==
  ASSUME NEW v \in Version
  PROVE  /\ ComponentStatus(ClassifyAedt(v)) =
              IF Before(v, AedtFloor) THEN "incompatible" ELSE "ok"
         /\ ComponentStatus(ClassifyPyaedt(v)) =
              IF Before(v, PyaedtPin) THEN "incompatible" ELSE "ok"
         /\ ComponentStatus(ClassifyPython(v)) =
              IF Before(v, PythonFloor) THEN "incompatible" ELSE "ok"
  <1>1. ComponentStatus(ClassifyAedt(v)) =
          IF Before(v, AedtFloor) THEN "incompatible" ELSE "ok"
    <2>1. CASE Before(v, AedtFloor)
      <3>1. ClassifyAedt(v) = "unsupported"
        <4>1. ~ Before(AedtAnchor, v) /\ v # AedtAnchor
          BY <2>1, VersionIsPair DEF Before, AedtFloor, AedtAnchor
        <4> QED
          BY <2>1, <4>1 DEF ClassifyAedt
      <3> QED
        BY <2>1, <3>1 DEF ComponentStatus
    <2>2. CASE ~ Before(v, AedtFloor)
      <3>1. \/ Before(v, AedtAnchor) \/ v = AedtAnchor \/ Before(AedtAnchor, v)
        BY OrderIsTotal DEF AedtAnchor
      <3>2. ClassifyAedt(v) # "unsupported"
        <4>1. ClassifyAedt(v) \in {"expected", "target", "beyond-pin"}
          BY <2>2, <3>1 DEF ClassifyAedt
        <4> QED
          BY <4>1
      <3> QED
        BY <2>2, <3>2 DEF ComponentStatus
    <2> QED
      BY <2>1, <2>2
  <1>2. ComponentStatus(ClassifyPyaedt(v)) =
          IF Before(v, PyaedtPin) THEN "incompatible" ELSE "ok"
    BY DEF ComponentStatus, ClassifyPyaedt
  <1>3. ComponentStatus(ClassifyPython(v)) =
          IF Before(v, PythonFloor) THEN "incompatible" ELSE "ok"
    BY DEF ComponentStatus, ClassifyPython
  <1> QED
    BY <1>1, <1>2, <1>3

LEMMA InstallNamesAVersion ==
  ASSUME NEW root, root.digits \in Nat
  PROVE  ParseAedtEnvVarName(root) \in Version
  <1> DEFINE year == root.digits \div 10
             release == root.digits % 10
  <1>1. year \in Nat /\ release \in Nat
    OBVIOUS
  <1>2. ParseAedtEnvVarName(root) =
          CASE year >= 20 -> <<2000 + year, release>>
            [] year < 20 /\ release < 3 -> <<2000 + year - 1, release>>
            [] year < 20 /\ release >= 3 -> <<2000 + year, release - 2>>
    BY DEF ParseAedtEnvVarName
  <1> HIDE DEF year, release
  <1>3. \/ ParseAedtEnvVarName(root) = <<2000 + year, release>>
        \/ release < 3 /\ ParseAedtEnvVarName(root) = <<2000 + year - 1, release>>
        \/ release >= 3 /\ ParseAedtEnvVarName(root) = <<2000 + year, release - 2>>
    BY <1>1, <1>2
  <1> QED
    BY <1>1, <1>3 DEF Version

Installed(machine) == {ParseAedtEnvVarName(root) : root \in AedtEnvVarNames(machine)}

LEMMA InstalledAreVersions ==
  ASSUME NEW machine, MachineOK(machine)
  PROVE  Installed(machine) \subseteq Version /\ IsFiniteSet(Installed(machine))
  <1> DEFINE R == AedtEnvVarNames(machine)
             f == [root \in R |-> ParseAedtEnvVarName(root)]
  <1>1. R \subseteq machine.roots /\ IsFiniteSet(R)
    <2>1. R \in SUBSET machine.roots
      BY DEF AedtEnvVarNames
    <2> QED
      BY <2>1, FS_Subset DEF MachineOK
  <1>2. Installed(machine) \subseteq Version
    BY <1>1, InstallNamesAVersion DEF Installed, MachineOK
  <1>3. f \in Surjection(R, Installed(machine))
    BY DEF Surjection, Installed
  <1> HIDE DEF R, f
  <1>4. IsFiniteSet(Installed(machine))
    BY <1>1, <1>3, FS_Surjection
  <1> QED
    BY <1>2, <1>4

\* The versions the attached session, or else the scan, brings into question.
InQuestion(machine, environment) ==
  IF environment # None /\ environment.aedt_version # Unparseable
  THEN {environment.aedt_version} ELSE Installed(machine)

LEMMA AedtIsReadAsItIs ==
  ASSUME NEW machine, MachineOK(machine), NEW environment,
         environment # None => environment.aedt_version \in Version \cup {Unparseable}
  PROVE  LET aedt == ResolveAedt(machine, environment)
             Q == InQuestion(machine, environment)
         IN /\ aedt.detected = Q
            /\ IF Cardinality(Q) = 1 THEN Q = {aedt.version} ELSE aedt.version = None
            /\ aedt.version = None <=> aedt.source = None
            /\ aedt.status = IF \E v \in Q : ~ Before(v, AedtFloor)
                             THEN "ok" ELSE "incompatible"
  <1> DEFINE aedt == ResolveAedt(machine, environment)
             Q == InQuestion(machine, environment)
             I == Installed(machine)
             attached == AttachedAedtVersion(environment)
  <1>1. "attached_session" # None /\ "installed_scan" # None
    BY SourcesAssumption DEF AedtVersionSources
  <1>2. I \subseteq Version /\ IsFiniteSet(I)
    BY InstalledAreVersions
  <1>3. CASE environment # None /\ environment.aedt_version # Unparseable
    <2>1. attached = environment.aedt_version /\ attached \in Version /\ Q = {attached}
      BY <1>3 DEF AttachedAedtVersion, ParseDottedVersion, InQuestion
    <2>2. attached # None
      BY <2>1, VersionIsPair
    <2>3. aedt = AedtReading(attached, "attached_session", {attached},
                             ComponentStatus(ClassifyAedt(attached)))
      BY <2>2 DEF ResolveAedt
    <2>4. Cardinality(Q) = 1
      BY <2>1, FS_Singleton
    <2> HIDE DEF attached, aedt, Q
    <2>5. aedt.status = IF Before(attached, AedtFloor) THEN "incompatible" ELSE "ok"
      BY <2>1, <2>3, StatusIsTheFloor DEF AedtReading
    <2> QED
      BY <1>1, <2>1, <2>2, <2>3, <2>4, <2>5 DEF AedtReading, aedt, Q
  <1>4. CASE ~ (environment # None /\ environment.aedt_version # Unparseable)
    <2>1. attached = None /\ Q = I
      BY <1>4 DEF AttachedAedtVersion, ParseDottedVersion, InQuestion
    <2> DEFINE scan == AggregateInstalledAedtStatus(I)
    <2>2. scan = IF \E v \in Q : ~ Before(v, AedtFloor) THEN "ok" ELSE "incompatible"
      <3>1. \A v \in I : ComponentStatus(ClassifyAedt(v)) = "ok" <=> ~ Before(v, AedtFloor)
        BY <1>2, StatusIsTheFloor
      <3> QED
        BY <2>1, <3>1 DEF AggregateInstalledAedtStatus
    <2>3. CASE Cardinality(I) = 1
      <3>1. PICK v : I = {v}
        BY <1>2, <2>3, FS_Singleton
      <3>2. (CHOOSE w \in I : TRUE) = v /\ v # None
        BY <1>2, <3>1, VersionIsPair
      <3>3. aedt = AedtReading(v, "installed_scan", I, scan)
        BY <2>1, <2>3, <3>2 DEF ResolveAedt, Installed
      <3> QED
        BY <1>1, <2>1, <2>2, <2>3, <3>1, <3>2, <3>3 DEF AedtReading
    <2>4. CASE Cardinality(I) # 1
      <3>1. aedt = AedtReading(None, None, I, scan)
        BY <2>1, <2>4 DEF ResolveAedt, Installed
      <3> QED
        BY <2>1, <2>2, <2>4, <3>1 DEF AedtReading
    <2> QED
      BY <2>3, <2>4
  <1> QED
    BY <1>3, <1>4

\* What the two version checks say.
LEMMA PyaedtCheckIsThePin ==
  ASSUME NEW machine, MachineOK(machine)
  PROVE  LET read == ReadDistributionVersion(machine.pyaedt)
             check == PyaedtCheck(read)
             readable == machine.pyaedt.installed /\ machine.pyaedt.version # None
         IN /\ read.state = "found" <=> readable
            /\ check.detected = IF readable THEN {machine.pyaedt.version} ELSE {}
            /\ check.severity = "required"
            /\ check.status = IF /\ readable
                                 /\ machine.pyaedt.version # Unparseable
                                 /\ ~ Before(machine.pyaedt.version, PyaedtPin)
                              THEN "ok" ELSE "incompatible"
  <1> DEFINE metadata == machine.pyaedt
             read == ReadDistributionVersion(metadata)
             version == metadata.version
  <1>1. metadata.installed \in BOOLEAN /\ version \in Version \cup {Unparseable, None}
    BY DEF MachineOK
  <1>2. CASE metadata.installed /\ version # None
    <2>1. read.state = "found" /\ read.version = version
      BY <1>2 DEF ReadDistributionVersion
    <2>2. CASE version = Unparseable
      BY <1>2, <2>1, <2>2 DEF PyaedtCheck, ParseDottedVersion, ComponentCheck
    <2>3. CASE version # Unparseable
      <3>1. version \in Version /\ ParseDottedVersion(version) = version
        BY <1>1, <1>2, <2>3 DEF ParseDottedVersion
      <3> HIDE DEF read, version
      <3> QED
        BY <1>2, <2>1, <2>3, <3>1, StatusIsTheFloor DEF PyaedtCheck, ComponentCheck, version, read
    <2> QED
      BY <2>2, <2>3
  <1>3. CASE ~ (metadata.installed /\ version # None)
    <2>1. read.state # "found" /\ read.version = None
      BY <1>3 DEF ReadDistributionVersion
    <2> QED
      BY <1>3, <2>1 DEF PyaedtCheck, ComponentCheck
  <1> QED
    BY <1>2, <1>3

LEMMA PythonCheckIsTheFloor ==
  ASSUME NEW version \in Version \cup {Unparseable}
  PROVE  LET check == PythonCheck(version)
         IN /\ check.severity = "required"
            /\ check.status = IF version # Unparseable /\ ~ Before(version, PythonFloor)
                              THEN "ok" ELSE "incompatible"
  <1>1. CASE version = Unparseable
    BY <1>1 DEF PythonCheck, ParseDottedVersion, ComponentCheck
  <1>2. CASE version # Unparseable
    <2>1. version \in Version /\ version # None /\ ParseDottedVersion(version) = version
      BY <1>2, VersionIsPair DEF ParseDottedVersion
    <2> QED
      BY <1>2, <2>1, StatusIsTheFloor DEF PythonCheck, ComponentCheck
  <1> QED
    BY <1>1, <1>2

\* The overall verdict is that of the three components that are required.
LEMMA OverallIsOfTheRequired ==
  ASSUME NEW aedt, NEW read, NEW python,
         PyaedtCheck(read).severity = "required", PythonCheck(python).severity = "required"
  PROVE  LET checks == Checks(aedt, read, python)
         IN /\ checks[1].detected = aedt.detected
            /\ checks[2] = PyaedtCheck(read)
            /\ Overall(checks) = IF "incompatible" \in {aedt.status, PyaedtCheck(read).status,
                                                        PythonCheck(python).status}
                                 THEN "incompatible" ELSE "ok"
  <1> DEFINE checks == Checks(aedt, read, python)
  <1>1. /\ DOMAIN checks = 1..6
        /\ checks[1] = ComponentCheck("aedt", aedt.detected, aedt.status, "required")
        /\ checks[2] = PyaedtCheck(read)
        /\ checks[3] = PythonCheck(python)
        /\ checks[4] = AdvisoryCheck("grpc")
        /\ checks[5] = AdvisoryCheck("license")
        /\ checks[6] = AdvisoryCheck("processes")
    BY DEF Checks
  <1>2. \A component : AdvisoryCheck(component).severity # "required"
    BY DEF AdvisoryCheck, ComponentCheck
  <1>3. /\ checks[1].severity = "required"
        /\ checks[1].detected = aedt.detected
        /\ checks[1].status = aedt.status
    BY <1>1 DEF ComponentCheck
  <1>4. \A i \in 1..6 : i = 1 \/ i = 2 \/ i = 3 \/ i = 4 \/ i = 5 \/ i = 6
    OBVIOUS
  <1> HIDE DEF checks
  <1>5. (\E i \in DOMAIN checks : checks[i].severity = "required"
                                  /\ checks[i].status = "incompatible")
          <=> "incompatible" \in {aedt.status, PyaedtCheck(read).status,
                                  PythonCheck(python).status}
    BY <1>1, <1>2, <1>3, <1>4
  <1>6. Overall(checks) = IF "incompatible" \in {aedt.status, PyaedtCheck(read).status,
                                                 PythonCheck(python).status}
                          THEN "incompatible" ELSE "ok"
    BY <1>5 DEF Overall
  <1> QED
    BY <1>1, <1>3, <1>6 DEF checks

\* The adapter the server runs with is the one the command line and the
\* machine's own metadata allow.
LEMMA StartFollowsTheMetadata ==
  ASSUME NEW requested, NEW machine, MachineOK(machine),
         NEW kind, kind = BuildAdapter(ResolveAdapterKind(requested, machine), machine),
         kind \in {"live", "fake"}
  PROVE  /\ kind = "live" => ReadDistributionVersion(machine.pyaedt).state = "found"
         /\ kind = "fake" /\ requested = None => FALSE
  <1> DEFINE resolved == ResolveAdapterKind(requested, machine)
  <1>1. kind = resolved
    BY DEF BuildAdapter
  <1>2. CASE Choice(requested) \notin LegalAdapterValues
    <2>1. resolved = "refused"
      BY <1>2 DEF ResolveAdapterKind, LegalAdapterValues
    <2> QED
      BY <1>1, <2>1
  <1>3. CASE Choice(requested) = "fake"
    <2>1. resolved = "fake"
      BY <1>3 DEF ResolveAdapterKind, LegalAdapterValues
    <2>2. requested # None
      BY <1>3 DEF Choice
    <2> QED
      BY <1>1, <2>1, <2>2
  <1>4. CASE Choice(requested) = "live"
    <2>1. resolved = IF ReadDistributionVersion(machine.pyaedt).state = "found"
                     THEN "live" ELSE "refused"
      BY <1>4 DEF ResolveAdapterKind, LegalAdapterValues
    <2> QED
      BY <1>1, <2>1
  <1> QED
    BY <1>2, <1>3, <1>4 DEF LegalAdapterValues

LEMMA ReportAgrees ==
  ASSUME PipelineInv
  PROVE  ReportAgreesWithEvidence
  <1> SUFFICES ASSUME report # None PROVE ReportAgreesWithEvidence
    BY DEF ReportAgreesWithEvidence
  <1> DEFINE machine == request.machine
             environment == request.environment
             metadata == machine.pyaedt
             aedt == ResolveAedt(machine, environment)
             read == ReadDistributionVersion(metadata)
             checks == Checks(aedt, read, machine.python)
             readable == metadata.installed /\ metadata.version # None
  <1>1. /\ Serves
        /\ adapter = BuildAdapter(ResolveAdapterKind(request.adapter, machine), machine)
        /\ report = PreflightEnvironment(machine, environment)
    BY DEF PipelineInv, PhasesAgree, ResultsAgree
  <1>2. /\ MachineOK(machine)
        /\ environment # None => environment.aedt_version \in Version \cup {Unparseable}
        /\ machine.python \in Version \cup {Unparseable}
    BY RequestsAssumption DEF PipelineInv, ResultsAgree, RequestOK, MachineOK
  <1>3. AedtInQuestion = InQuestion(machine, environment)
    BY DEF AedtInQuestion, InQuestion, Installed, AedtEnvVarNames
  <1>4. /\ report.environment.aedt_version = aedt.version
        /\ report.environment.aedt_version_source = aedt.source
        /\ report.checks = checks
        /\ report.overall = Overall(checks)
    BY <1>1 DEF PreflightEnvironment
  <1>5. /\ aedt.detected = AedtInQuestion
        /\ IF Cardinality(AedtInQuestion) = 1 THEN AedtInQuestion = {aedt.version}
           ELSE aedt.version = None
        /\ aedt.version = None <=> aedt.source = None
        /\ aedt.status = IF \E v \in AedtInQuestion : ~ Before(v, AedtFloor)
                         THEN "ok" ELSE "incompatible"
    BY <1>2, <1>3, AedtIsReadAsItIs
  <1>6. \A v \in AedtInQuestion : v # Unparseable
    <2>1. Installed(machine) \subseteq Version
      BY <1>2, InstalledAreVersions
    <2> QED
      BY <1>3, <2>1, VersionIsPair DEF InQuestion
  <1>7. /\ read.state = "found" <=> readable
        /\ PyaedtCheck(read).detected = IF readable THEN {metadata.version} ELSE {}
        /\ PyaedtCheck(read).severity = "required"
        /\ PyaedtCheck(read).status = IF /\ readable
                                         /\ metadata.version # Unparseable
                                         /\ ~ Before(metadata.version, PyaedtPin)
                                      THEN "ok" ELSE "incompatible"
    BY <1>2, PyaedtCheckIsThePin
  <1>8. /\ PythonCheck(machine.python).severity = "required"
        /\ PythonCheck(machine.python).status =
             IF machine.python # Unparseable /\ ~ Before(machine.python, PythonFloor)
             THEN "ok" ELSE "incompatible"
    BY <1>2, PythonCheckIsTheFloor
  <1>9. /\ checks[1].detected = aedt.detected
        /\ checks[2] = PyaedtCheck(read)
        /\ Overall(checks) = IF "incompatible" \in {aedt.status, PyaedtCheck(read).status,
                                                    PythonCheck(machine.python).status}
                             THEN "incompatible" ELSE "ok"
    BY <1>7, <1>8, OverallIsOfTheRequired
  <1>10. /\ adapter = "live" => read.state = "found"
         /\ adapter = "fake" => request.adapter # None
    BY <1>1, <1>2, StartFollowsTheMetadata DEF Serves
  <1> HIDE DEF machine, environment, metadata, aedt, read, checks
  <1>11. report.overall = "ok" <=>
           /\ \E version \in AedtInQuestion : version # Unparseable /\ ~ Before(version, AedtFloor)
           /\ readable
           /\ metadata.version # Unparseable /\ ~ Before(metadata.version, PyaedtPin)
           /\ machine.python # Unparseable /\ ~ Before(machine.python, PythonFloor)
    BY <1>4, <1>5, <1>6, <1>7, <1>8, <1>9
  <1>12. /\ report.checks[1].detected = AedtInQuestion
         /\ report.checks[2].detected = IF readable THEN {metadata.version} ELSE {}
    BY <1>4, <1>5, <1>7, <1>9
  <1>13. /\ adapter = "live" => report.checks[2].detected # {}
         /\ report.checks[2].detected = {} => adapter = "fake" /\ request.adapter # None
    BY <1>1, <1>7, <1>10, <1>12 DEF Serves
  <1> QED
    BY <1>4, <1>5, <1>11, <1>12, <1>13 DEF ReportAgreesWithEvidence, machine, metadata

\* What the report says is what the machine shows, and it is the same answer
\* the start refused for (preflight/assembler.py, adapter_selection.py).
THEOREM ReportIsAsTheMachine == Spec => []ReportAgreesWithEvidence
  <1>1. PipelineInv => ReportAgreesWithEvidence
    BY ReportAgrees
  <1> QED
    BY <1>1, ResultsAreTheirFunctions, PTL

----------------------------------------------------------------------------
(* The bundle: no name of a design gets into it.                           *)

LEMMA NoArgumentIsKept ==
  ASSUME NEW a, NEW b
  PROVE  [key \in DOMAIN a \cap {} |-> a[key]] = [key \in DOMAIN b \cap {} |-> b[key]]
  OBVIOUS

\* A record that is kept blurred gives the same line of the bundle.
LEMMA RedactionIsBlind ==
  ASSUME NEW record, AuditRecordOK(record)
  PROVE  RedactAuditRecord(Blurred(record)) = RedactAuditRecord(record)
  <1> DEFINE blurred == Blurred(record)
             n == Cardinality(DOMAIN record.sanitized_arguments)
             name == IF record.tool_name \in Registered THEN record.tool_name
                     ELSE "<unregistered>"
             selected == [key \in SelectionKeys |->
                            IF record.selection_state[key] = None THEN None ELSE "a name"]
             arguments == [i \in 1..n |-> "a name"]
  <1>1. blurred = [record EXCEPT !.tool_name = name, !.selection_state = selected,
                                 !.sanitized_arguments = arguments, !.snapshot_id = None]
    BY DEF Blurred, AuditRecordOK
  <1>2. n \in Nat /\ Cardinality(1..n) = n
    <2>1. n \in Nat
      BY FS_CardinalityType DEF AuditRecordOK
    <2> HIDE DEF n
    <2>2. Cardinality(1..n) = n
      <3>1. 1..n = {} \/ 1 <= n
        BY <2>1
      <3> QED
        BY <2>1, <3>1, FS_Interval
    <2> QED
      BY <2>1, <2>2
  <1> HIDE DEF name, selected, arguments, blurred, n
  <1>3. /\ blurred.timestamp = record.timestamp
        /\ blurred.risk_tier = record.risk_tier
        /\ blurred.outcome = record.outcome
        /\ blurred.duration = record.duration
        /\ blurred.session_degraded = record.session_degraded
        /\ blurred.tool_name = name
        /\ blurred.selection_state = selected
        /\ blurred.sanitized_arguments = arguments
    BY <1>1 DEF AuditRecordOK
  <1>4. ToolName(blurred) = ToolName(record)
    BY <1>3 DEF ToolName, name
  <1>5. \A key \in SelectionKeys :
           blurred.selection_state[key] # None <=> record.selection_state[key] # None
    <2> TAKE key \in SelectionKeys
    <2>1. PICK shown : shown = "a name" /\ shown # None
      BY BlurAssumption
    <2>2. blurred.selection_state[key] = IF record.selection_state[key] = None
                                         THEN None ELSE shown
      BY <1>3, <2>1 DEF selected
    <2> QED
      BY <2>1, <2>2
  <1>6. DOMAIN blurred.sanitized_arguments = 1..n
    BY <1>3 DEF arguments
  <1>7. Cardinality(DOMAIN blurred.sanitized_arguments \ AllowedArgumentKeys)
          = Cardinality(DOMAIN record.sanitized_arguments \ AllowedArgumentKeys)
    <2>1. \A S : S \ {} = S
      OBVIOUS
    <2> QED
      BY <1>2, <1>6, <2>1 DEF n, AllowedArgumentKeys
  <1>8. [key \in DOMAIN blurred.sanitized_arguments \cap AllowedArgumentKeys |->
           blurred.sanitized_arguments[key]]
        = [key \in DOMAIN record.sanitized_arguments \cap AllowedArgumentKeys |->
             record.sanitized_arguments[key]]
    BY NoArgumentIsKept DEF AllowedArgumentKeys
  <1>9. [key \in SelectionKeys |-> blurred.selection_state[key] # None]
        = [key \in SelectionKeys |-> record.selection_state[key] # None]
    BY <1>5
  <1> QED
    BY <1>3, <1>4, <1>7, <1>8, <1>9 DEF RedactAuditRecord, blurred

LEMMA BundleIsBlind ==
  ASSUME PipelineInv
  PROVE  BundleIsBlindToNames
  <1> SUFFICES ASSUME bundle # None, bundle # DiagnosticsBundleError
               PROVE  BundleIsBlindToNames
    BY DEF BundleIsBlindToNames
  <1> DEFINE records == request.log.records
             report1 == PreflightEnvironment(request.machine, request.environment)
  <1>1. bundle = BuildDiagnosticsBundle(report1, request.log)
    BY DEF PipelineInv, PhasesAgree, ResultsAgree
  <1>2. request.log # None /\ \A i \in DOMAIN records : AuditRecordOK(records[i])
    BY <1>1, RequestsAssumption
       DEF BuildDiagnosticsBundle, PipelineInv, ResultsAgree, RequestOK
  <1>3. bundle.records = [i \in DOMAIN records |-> RedactAuditRecord(records[i])]
    BY <1>1, <1>2 DEF BuildDiagnosticsBundle
  <1>4. \A i \in DOMAIN records :
           /\ RedactAuditRecord(Blurred(records[i])) = RedactAuditRecord(records[i])
           /\ RedactAuditRecord(records[i]).timestamp = records[i].timestamp
    BY <1>2, RedactionIsBlind DEF RedactAuditRecord
  <1>5. bundle.records = [i \in DOMAIN records |-> RedactAuditRecord(Blurred(records[i]))]
    BY <1>3, <1>4
  <1>6. [i \in DOMAIN bundle.records |-> bundle.records[i].timestamp]
          = [i \in DOMAIN records |-> records[i].timestamp]
    BY <1>3, <1>4
  <1> QED
    BY <1>5, <1>6 DEF BundleIsBlindToNames

\* What a diagnostics bundle shows of a log depends on no name in it, whatever
\* the log (preflight/redaction.py).
THEOREM BundleShowsNoName == Spec => []BundleIsBlindToNames
  <1>1. PipelineInv => BundleIsBlindToNames
    BY BundleIsBlind
  <1> QED
    BY <1>1, ResultsAreTheirFunctions, PTL

----------------------------------------------------------------------------
(* The gates: what target_coverage judges.                                 *)

\* A snapshot that was made holds the pieces it was made of.
LEMMA SnapshotHoldsThePieces ==
  ASSUME NEW held, AssembleSnapshot(held, "snap").arm = "DesignSnapshot"
  PROVE  LET snap == AssembleSnapshot(held, "snap")
         IN /\ snap.solve_state = held.solve_state
            /\ snap.solved_data = held.solved_data
            /\ snap.intent = held.intent
  <1> DEFINE whole == SelectionIsWhole(held.selection)
             inspected == InspectionIsWhole(held.inspection)
             usable == NativeValidationIsUsable(held.native_validation)
             snap == AssembleSnapshot(held, "snap")
  <1>1. \A input : SnapshotAssemblyError(input).arm # "DesignSnapshot"
    BY DEF SnapshotAssemblyError
  <1>2. CASE ~ whole
    <2>1. snap = SnapshotAssemblyError("selection")
      BY <1>2 DEF AssembleSnapshot
    <2> QED
      BY <1>1, <2>1
  <1>3. CASE whole /\ ~ inspected
    <2>1. snap = SnapshotAssemblyError("inspection")
      BY <1>3 DEF AssembleSnapshot
    <2> QED
      BY <1>1, <2>1
  <1>4. CASE whole /\ inspected /\ ~ usable
    <2>1. snap = SnapshotAssemblyError("native_validation")
      BY <1>4 DEF AssembleSnapshot
    <2> QED
      BY <1>1, <2>1
  <1>5. CASE whole /\ inspected /\ usable
    <2>1. snap = [arm |-> "DesignSnapshot",
                  snapshot_id |-> "snap",
                  selection |-> Selection(held.selection),
                  inspection |-> Inspection(held.inspection),
                  native_validation |-> NativeValidation(held.native_validation),
                  solve_state |-> held.solve_state,
                  solved_data |-> held.solved_data,
                  intent |-> held.intent]
      BY <1>5 DEF AssembleSnapshot
    <2> HIDE DEF snap
    <2> QED
      BY <2>1 DEF snap
  <1> QED
    BY <1>2, <1>3, <1>4, <1>5

LEMMA NumbersAreFinite ==
  ASSUME NEW x \in Number \cup {None}
  PROVE  /\ x # None => (Finite(x) <=> x \in Int)
         /\ Finite(None)
  BY NonFiniteAssumption, NoneAssumption DEF Number, Finite

\* Strictly rising samples have their ends at their ends.
LEMMA RisingEnds ==
  ASSUME NEW s, NEW n \in Nat \ {0}, \A i \in 1..n : s[i] \in Int,
         \A i \in 2..n : s[i - 1] < s[i]
  PROVE  \A i \in 1..n : s[1] <= s[i] /\ s[i] <= s[n]
  <1> DEFINE S == {k \in Nat : k + 1 <= n => \A i \in 1..(k + 1) : s[1] <= s[i] /\ s[i] <= s[k + 1]}
  <1>1. 0 \in S
    OBVIOUS
  <1>2. ASSUME NEW k \in Nat, k \in S PROVE k + 1 \in S
    <2> SUFFICES ASSUME (k + 1) + 1 <= n
                 PROVE  \A i \in 1..((k + 1) + 1) : s[1] <= s[i] /\ s[i] <= s[(k + 1) + 1]
      OBVIOUS
    <2>1. PICK m \in Nat \ {0} : m = k + 1
      OBVIOUS
    <2>2. \A i \in 1..m : s[1] <= s[i] /\ s[i] <= s[m]
      BY <1>2, <2>1
    <2>3. s[m] < s[m + 1] /\ s[m] \in Int /\ s[m + 1] \in Int /\ s[1] \in Int
      <3>1. m + 1 \in 2..n /\ (m + 1) - 1 = m /\ m \in 1..n /\ m + 1 \in 1..n /\ 1 \in 1..n
        BY <2>1
      <3> QED
        BY <3>1
    <2>4. \A i \in 1..(m + 1) : s[i] \in Int /\ (i \in 1..m \/ i = m + 1)
      BY <2>1
    <2>5. m \in 1..m
      OBVIOUS
    <2>6. \A i \in 1..(m + 1) : s[1] <= s[i] /\ s[i] <= s[m + 1]
      BY <2>2, <2>3, <2>4, <2>5
    <2> QED
      BY <2>1, <2>6
  <1> HIDE DEF S
  <1>3. Nat \subseteq S
    BY <1>1, <1>2, NatSetInduction
  <1>4. n - 1 \in S /\ (n - 1) + 1 = n
    BY <1>3
  <1> QED
    BY <1>4 DEF S

LEMMA LeqOfWholes ==
  ASSUME NEW a \in Int, NEW b \in Int
  PROVE  Leq(a, b) <=> a <= b
  BY NonFiniteAssumption DEF Leq, Finite, NonFinite

\* Covered says that some sample is at or below the target and some at or above
\* it; of finite samples, the converse as well.
LEMMA CoveredIsSpanned ==
  ASSUME NEW s \in Seq(Number), s # <<>>, NEW target
  PROVE  /\ Covered(s, target) => SweepSpans(s, target)
         /\ (\A i \in DOMAIN s : Finite(s[i])) /\ target \in Int
              => (SweepSpans(s, target) => Covered(s, target))
  <1>1. /\ \E i \in DOMAIN s : Least(s) = s[i]
        /\ \E i \in DOMAIN s : Greatest(s) = s[i]
        /\ (\A i \in DOMAIN s : s[i] \in Int)
             => \A i \in DOMAIN s : Least(s) <= s[i] /\ s[i] <= Greatest(s)
    BY LeastAndGreatest
  <1>2. Covered(s, target) => SweepSpans(s, target)
    BY <1>1 DEF Covered, SweepSpans
  <1>3. ASSUME \A i \in DOMAIN s : Finite(s[i]), target \in Int, SweepSpans(s, target)
        PROVE  Covered(s, target)
    <2>1. \A i \in DOMAIN s : s[i] \in Int
      BY <1>3 DEF Number, Finite
    <2>2. PICK i \in DOMAIN s, j \in DOMAIN s : Leq(s[i], target) /\ Leq(target, s[j])
      BY <1>3 DEF SweepSpans
    <2>3. s[i] <= target /\ target <= s[j]
      BY <1>3, <2>1, <2>2, LeqOfWholes
    <2>4. Least(s) \in Int /\ Greatest(s) \in Int
      BY <1>1, <2>1
    <2>5. Least(s) <= target /\ target <= Greatest(s)
      BY <1>1, <1>3, <2>1, <2>3, <2>4
    <2> QED
      BY <1>3, <2>4, <2>5, LeqOfWholes DEF Covered
  <1> QED
    BY <1>2, <1>3

\* A target the sweep of a usable series covers is one its formulas accept.
LEMMA CoveredIsUsable ==
  ASSUME NEW s \in Seq(Number), NEW s11, SeriesIsUsable(s, s11), s # <<>>,
         NEW target \in Int, Covered(s, target)
  PROVE  TargetIsUsable(s, s11, target)
  <1>1. PICK n \in Nat \ {0} : n = Len(s) /\ DOMAIN s = 1..n
    OBVIOUS
  <1>2. \A i \in 1..n : s[i] \in Int
    BY <1>1 DEF SeriesIsUsable, Number, Finite
  <1>3. \A i \in 2..n : s[i - 1] < s[i]
    <2> TAKE i \in 2..n
    <2>1. i \in 1..n /\ i - 1 \in 1..n
      OBVIOUS
    <2>2. ~ Leq(s[i], s[i - 1])
      BY <1>1 DEF SeriesIsUsable
    <2>3. s[i] \in Int /\ s[i - 1] \in Int
      BY <1>2, <2>1
    <2>4. ~ (s[i] <= s[i - 1])
      BY <2>2, <2>3, LeqOfWholes
    <2> QED
      BY <2>3, <2>4
  <1>4. \A i \in 1..n : s[1] <= s[i] /\ s[i] <= s[n]
    BY <1>2, <1>3, RisingEnds
  <1>5. SweepSpans(s, target)
    BY CoveredIsSpanned
  <1>6. PICK i \in 1..n, j \in 1..n : Leq(s[i], target) /\ Leq(target, s[j])
    BY <1>1, <1>5 DEF SweepSpans
  <1>7. s[i] <= target /\ target <= s[j]
    BY <1>2, <1>6, LeqOfWholes
  <1>8. s[1] \in Int /\ s[n] \in Int /\ s[i] \in Int /\ s[j] \in Int
    BY <1>2
  <1>9. s[1] <= target /\ target <= s[n]
    BY <1>4, <1>7, <1>8
  <1>10. Leq(s[1], target) /\ Leq(target, s[n])
    BY <1>8, <1>9, LeqOfWholes
  <1> QED
    BY <1>1, <1>10 DEF TargetIsUsable

\* The outcome of target_coverage, and the target it was judged for.
LEMMA CoverageOutcome ==
  ASSUME NEW snap, NEW parameter \in Number \cup {None}, snap.intent \in Number \cup {None}
  PROVE  LET verdict == TargetCoverage(snap, parameter)
             asked == IF parameter # None THEN parameter ELSE snap.intent
             judged == /\ asked # None /\ Finite(asked)
                       /\ IsRead(snap.solved_data) /\ snap.solved_data.frequencies # <<>>
         IN /\ verdict.outcome = IF ~ judged THEN "insufficient_evidence"
                                 ELSE IF Covered(snap.solved_data.frequencies, asked)
                                 THEN "pass" ELSE "fail"
            /\ verdict.applicability.held <=> judged
            /\ verdict.observed = TargetEvidence(snap, parameter)
  <1> DEFINE verdict == TargetCoverage(snap, parameter)
             asked == IF parameter # None THEN parameter ELSE snap.intent
             frequencies == snap.solved_data.frequencies
             read == IsRead(snap.solved_data)
             target == TestedTarget(snap, parameter).value
             held(a, b, c) == Applicability([solved_data_readable |-> a, sweep_non_empty |-> b,
                                             target_supplied |-> c]).held
  <1>1. target = IF Finite(asked) THEN asked ELSE None
    BY DEF TestedTarget, NamedTarget
  <1>2. target # None <=> asked # None /\ Finite(asked)
    BY <1>1
  <1>3. \A a, b, c : held(a, b, c) <=> a /\ b /\ c
    BY DEF Applicability
  <1> HIDE DEF held, target, asked
  <1>4. CASE read
    <2> DEFINE ok == frequencies # <<>> /\ target # None
    <2>1. verdict = GateFinding(snap, "target_coverage",
             IF ~ ok THEN "insufficient_evidence"
             ELSE IF Covered(frequencies, target) THEN "pass" ELSE "fail",
             [solved_data_readable |-> TRUE, sweep_non_empty |-> frequencies # <<>>,
              target_supplied |-> target # None],
             TargetEvidence(snap, parameter))
      BY <1>4 DEF TargetCoverage, CoverageFromData, target
    <2>2. /\ verdict.outcome = IF ~ ok THEN "insufficient_evidence"
                               ELSE IF Covered(frequencies, target) THEN "pass" ELSE "fail"
          /\ verdict.applicability.held = held(TRUE, frequencies # <<>>, target # None)
          /\ verdict.observed = TargetEvidence(snap, parameter)
      BY <2>1 DEF GateFinding, held
    <2>3. ok => target = asked
      BY <1>1
    <2> HIDE DEF verdict
    <2> QED
      BY <1>2, <1>3, <1>4, <2>2, <2>3 DEF verdict, asked
  <1>5. CASE ~ read
    <2>1. verdict = GateFinding(snap, "target_coverage", "insufficient_evidence",
             [solved_data_readable |-> FALSE, sweep_non_empty |-> FALSE,
              target_supplied |-> target # None],
             TargetEvidence(snap, parameter))
      BY <1>5 DEF TargetCoverage, CoverageFromAbsence, target
    <2>2. /\ verdict.outcome = "insufficient_evidence"
          /\ verdict.applicability.held = held(FALSE, FALSE, target # None)
          /\ verdict.observed = TargetEvidence(snap, parameter)
      BY <2>1 DEF GateFinding, held
    <2> QED
      BY <1>3, <1>5, <2>2
  <1> QED
    BY <1>4, <1>5

\* What its finding shows is finite, and a target that is not is shown as such.
LEMMA EvidenceOfTarget ==
  ASSUME NEW snap, NEW parameter \in Number \cup {None}, snap.intent \in Number \cup {None}
  PROVE  LET shown == TargetEvidence(snap, parameter)
             asked == IF parameter # None THEN parameter ELSE snap.intent
         IN /\ Finite(shown.target_frequency_hz)
            /\ Finite(shown.intent_target_frequency_hz)
            /\ asked \in NonFinite => shown.rejected_target = asked
  <1> DEFINE asked == IF parameter # None THEN parameter ELSE snap.intent
  <1>1. Finite(None)
    BY NumbersAreFinite
  <1>2. Finite(TestedTarget(snap, parameter).value)
    BY <1>1 DEF TestedTarget
  <1>3. Finite(FiniteIntent(snap))
    BY <1>1 DEF FiniteIntent
  <1>4. asked \in NonFinite => RejectedTarget(snap, parameter).value = asked
    BY DEF RejectedTarget, NamedTarget, Finite
  <1> QED
    BY <1>1, <1>2, <1>3, <1>4 DEF TargetEvidence

\* What the judged phases hold of the snapshot and the gates.
LEMMA JudgedHoldsThePieces ==
  ASSUME PipelineInv, phase \in Judged
  PROVE  /\ request.parameter \in Number \cup {None}
         /\ request.reference_impedance \in Number
         /\ snapshot.intent \in Number \cup {None}
         /\ IsRead(snapshot.solved_data) =>
              /\ snapshot.solved_data.frequencies \in Seq(Number)
              /\ \A key \in DOMAIN snapshot.solved_data.s_parameters :
                   snapshot.solved_data.s_parameters[key] \in Seq([re : Number, im : Number])
         /\ IsRead(snapshot.solve_state) =>
              IsFiniteSet(DOMAIN snapshot.solve_state.solution_exists)
         /\ gates[1] = SolutionExists(snapshot)
         /\ gates[2] = Convergence(snapshot)
         /\ gates[3] = Freshness(snapshot)
         /\ gates[4] = TargetCoverage(snapshot, request.parameter)
         /\ gates \in Seq({SolutionExists(snapshot), Convergence(snapshot),
                           Freshness(snapshot), TargetCoverage(snapshot, request.parameter)})
         /\ DOMAIN gates = 1..4
         /\ request.supply \subseteq 1..4
  <1>1. /\ snapshot = AssembleSnapshot(request.held, "snap")
        /\ snapshot.arm = "DesignSnapshot"
        /\ gates = EvaluateGates(snapshot, request.parameter)
        /\ RequestOK(request)
    BY RequestsAssumption DEF PipelineInv, ResultsAgree, Judged
  <1>2. /\ snapshot.solve_state = request.held.solve_state
        /\ snapshot.solved_data = request.held.solved_data
        /\ snapshot.intent = request.held.intent
    BY <1>1, SnapshotHoldsThePieces
  <1>3. /\ request.parameter \in Number \cup {None}
        /\ request.reference_impedance \in Number
        /\ request.held.intent \in Number \cup {None}
        /\ request.supply \subseteq 1..4
    BY <1>1 DEF RequestOK
  <1>4. /\ IsRead(request.held.solved_data) =>
              /\ request.held.solved_data.frequencies \in Seq(Number)
              /\ \A key \in DOMAIN request.held.solved_data.s_parameters :
                   request.held.solved_data.s_parameters[key] \in Seq([re : Number, im : Number])
        /\ IsRead(request.held.solve_state) =>
              IsFiniteSet(DOMAIN request.held.solve_state.solution_exists)
    BY <1>1 DEF RequestOK
  <1>5. \A a, b, c, d : /\ <<a, b, c, d>> \in Seq({a, b, c, d})
                        /\ DOMAIN <<a, b, c, d>> = 1..4
                        /\ <<a, b, c, d>>[1] = a /\ <<a, b, c, d>>[2] = b
                        /\ <<a, b, c, d>>[3] = c /\ <<a, b, c, d>>[4] = d
    OBVIOUS
  <1>6. gates = <<SolutionExists(snapshot), Convergence(snapshot), Freshness(snapshot),
                  TargetCoverage(snapshot, request.parameter)>>
    BY <1>1 DEF EvaluateGates
  <1>7. PICK a, b, c, d : /\ a = SolutionExists(snapshot)
                          /\ b = Convergence(snapshot)
                          /\ c = Freshness(snapshot)
                          /\ d = TargetCoverage(snapshot, request.parameter)
    OBVIOUS
  <1>8. gates = <<a, b, c, d>>
    BY <1>6, <1>7
  <1>9. /\ gates[1] = a /\ gates[2] = b /\ gates[3] = c /\ gates[4] = d
        /\ gates \in Seq({a, b, c, d})
        /\ DOMAIN gates = 1..4
    BY <1>5, <1>8
  <1>10. /\ gates[1] = SolutionExists(snapshot)
         /\ gates[2] = Convergence(snapshot)
         /\ gates[3] = Freshness(snapshot)
         /\ gates[4] = TargetCoverage(snapshot, request.parameter)
         /\ gates \in Seq({SolutionExists(snapshot), Convergence(snapshot),
                           Freshness(snapshot), TargetCoverage(snapshot, request.parameter)})
         /\ DOMAIN gates = 1..4
    BY <1>7, <1>9
  <1>11. /\ snapshot.intent \in Number \cup {None}
         /\ IsRead(snapshot.solved_data) =>
              /\ snapshot.solved_data.frequencies \in Seq(Number)
              /\ \A key \in DOMAIN snapshot.solved_data.s_parameters :
                   snapshot.solved_data.s_parameters[key] \in Seq([re : Number, im : Number])
         /\ IsRead(snapshot.solve_state) =>
              IsFiniteSet(DOMAIN snapshot.solve_state.solution_exists)
    BY <1>2, <1>3, <1>4, Zenon
  <1> QED
    BY <1>3, <1>10, <1>11, Zenon

LEMMA CoverageIsOfRealTargets ==
  ASSUME PipelineInv
  PROVE  CoverageJudgesRealTargets
  <1> SUFFICES ASSUME gates # None PROVE CoverageJudgesRealTargets
    BY DEF CoverageJudgesRealTargets
  <1> DEFINE parameter == request.parameter
             verdict == gates[4]
             asked == IF parameter # None THEN parameter ELSE snapshot.intent
             data == snapshot.solved_data
             frequencies == data.frequencies
             judged == verdict.outcome \in {"pass", "fail"}
             judgeable == /\ asked # None /\ Finite(asked)
                          /\ IsRead(data) /\ frequencies # <<>>
  <1>1. /\ parameter \in Number \cup {None}
        /\ snapshot.intent \in Number \cup {None}
        /\ IsRead(data) => frequencies \in Seq(Number)
        /\ verdict = TargetCoverage(snapshot, parameter)
    <2>1. phase \in Judged
      BY DEF PipelineInv, PhasesAgree
    <2> QED
      BY <2>1, JudgedHoldsThePieces
  <1>2. /\ verdict.outcome = IF ~ judgeable THEN "insufficient_evidence"
                             ELSE IF Covered(frequencies, asked) THEN "pass" ELSE "fail"
        /\ verdict.applicability.held <=> judgeable
        /\ verdict.observed = TargetEvidence(snapshot, parameter)
    BY <1>1, CoverageOutcome
  <1>3. asked \in Number \cup {None}
    BY <1>1
  <1>4. judgeable => asked \in Int /\ frequencies \in Seq(Number)
    BY <1>1, <1>3, NumbersAreFinite
  <1>5. /\ Finite(verdict.observed.target_frequency_hz)
        /\ Finite(verdict.observed.intent_target_frequency_hz)
        /\ asked \in NonFinite => verdict.observed.rejected_target = asked
    BY <1>1, <1>2, EvidenceOfTarget
  <1>6. judged <=> judgeable
    BY <1>2
  <1>7. ASSUME judged, FiniteSweep(snapshot)
        PROVE  verdict.outcome = "pass" <=> SweepSpans(frequencies, asked)
    <2>1. \A i \in DOMAIN frequencies : Finite(frequencies[i])
      BY <1>7 DEF FiniteSweep
    <2>2. Covered(frequencies, asked) <=> SweepSpans(frequencies, asked)
      BY <1>4, <1>6, <1>7, <2>1, CoveredIsSpanned
    <2>3. verdict.outcome = "pass" <=> Covered(frequencies, asked)
      BY <1>2, <1>6, <1>7
    <2> QED
      BY <2>2, <2>3
  <1>8. ASSUME verdict.outcome = "pass",
               SeriesIsUsable(frequencies, data.s_parameters[S11Key])
        PROVE  TargetIsUsable(frequencies, data.s_parameters[S11Key], asked)
    <2>1. judgeable /\ Covered(frequencies, asked)
      BY <1>2, <1>8
    <2> QED
      BY <1>4, <1>8, <2>1, CoveredIsUsable
  <1> HIDE DEF verdict, asked, judgeable
  <1> QED
    BY <1>2, <1>5, <1>6, <1>7, <1>8 DEF CoverageJudgesRealTargets, verdict, asked, judgeable

\* The coverage verdict is the sweep's own answer for the target that was
\* asked for, and only for one that can be judged (gating/target_coverage.py).
THEOREM CoverageIsReal == Spec => []CoverageJudgesRealTargets
  <1>1. PipelineInv => CoverageJudgesRealTargets
    BY CoverageIsOfRealTargets
  <1> QED
    BY <1>1, ResultsAreTheirFunctions, PTL

----------------------------------------------------------------------------
(* The numbers: what must have been judged before one goes out.            *)

\* Metrics that hold a number were computed: not refused, not raised.
LEMMA NumbersWereComputed ==
  ASSUME NEW findings, NEW solved, NEW intent, NEW z0,
         ComputeMetrics(findings, solved, intent, z0).metrics # <<>>
  PROVE  LET made == ComputeMetrics(findings, solved, intent, z0)
         IN /\ ~ RoutesToRefusal(findings)
            /\ S11Key \in DOMAIN solved.s_parameters
            /\ ~ PreconditionFails(solved.frequencies, solved.s_parameters[S11Key], intent)
            /\ made.arm = IF NotPassing(findings) = <<>> THEN "MetricsComputed"
                          ELSE "MetricsComputedWithCaveats"
            /\ made.gates = NotPassing(findings)
            /\ LET computed == ComputedValues(solved.frequencies,
                                              solved.s_parameters[S11Key], intent, z0)
               IN /\ made.metrics = FiniteRecords(computed.values, GateStatus(findings))
                  /\ made.omitted = Ordered(computed.omissions
                                              \o NonFiniteOmissions(computed.values))
  <1> DEFINE made == ComputeMetrics(findings, solved, intent, z0)
             s11 == solved.s_parameters[S11Key]
             frequencies == solved.frequencies
  <1>1. /\ MetricsRefused(findings).metrics = <<>>
        /\ \A error : Raised(error).metrics = <<>>
    BY DEF MetricsRefused, Raised
  <1>2. ~ RoutesToRefusal(findings)
    <2>1. RoutesToRefusal(findings) => made = MetricsRefused(findings)
      BY DEF ComputeMetrics
    <2> QED
      BY <1>1, <2>1
  <1>3. S11Key \in DOMAIN solved.s_parameters
    <2>1. S11Key \notin DOMAIN solved.s_parameters => made = Raised("MetricsAssemblyError")
      BY <1>2 DEF ComputeMetrics
    <2> QED
      BY <1>1, <2>1
  <1>4. made = IF PreconditionFails(frequencies, s11, intent) THEN Raised("ValueError")
               ELSE Computed(findings, frequencies, s11, intent, z0)
    BY <1>2, <1>3 DEF ComputeMetrics
  <1>5. ~ PreconditionFails(frequencies, s11, intent)
    BY <1>1, <1>4
  <1>6. made = Computed(findings, frequencies, s11, intent, z0)
    BY <1>4, <1>5
  <1> DEFINE computed == ComputedValues(frequencies, s11, intent, z0)
             records == FiniteRecords(computed.values, GateStatus(findings))
             omitted == Ordered(computed.omissions \o NonFiniteOmissions(computed.values))
  <1>7. made = IF records = <<>> THEN Raised("MetricsAssemblyError")
               ELSE [arm |-> IF NotPassing(findings) = <<>> THEN "MetricsComputed"
                             ELSE "MetricsComputedWithCaveats",
                     metrics |-> records,
                     omitted |-> omitted,
                     gates |-> NotPassing(findings)]
    BY <1>6 DEF Computed
  <1> HIDE DEF made, records, omitted, computed
  <1>8. records # <<>>
    BY <1>1, <1>7 DEF made
  <1>9. /\ made.arm = IF NotPassing(findings) = <<>> THEN "MetricsComputed"
                      ELSE "MetricsComputedWithCaveats"
        /\ made.gates = NotPassing(findings)
        /\ made.metrics = records /\ made.omitted = omitted
    BY <1>7, <1>8
  <1> QED
    BY <1>2, <1>3, <1>5, <1>9 DEF made, computed, records, omitted

\* What compute_metrics was handed, and which of it is a caveat.
LEMMA SuppliedAndHedged ==
  ASSUME NEW T, NEW findings \in Seq(T), NEW supply \in SUBSET DOMAIN findings
  PROVE  LET supplied == Kept(findings, supply)
         IN /\ ToSet(supplied) = {findings[i] : i \in supply}
            /\ supplied = <<>> <=> supply = {}
            /\ ToSet(NotPassing(supplied)) =
                 {findings[i] : i \in {j \in supply : findings[j].outcome # "pass"}}
  <1> DEFINE supplied == Kept(findings, supply)
             hedged == NotPassing(supplied)
             chosen == {i \in DOMAIN supplied : supplied[i].outcome # "pass"}
  <1>1. supplied \in Seq(T) /\ ToSet(supplied) = {findings[i] : i \in supply}
    <2>1. supply \cap DOMAIN findings = supply
      OBVIOUS
    <2> QED
      BY <2>1, KeptHolds
  <1> HIDE DEF supplied
  <1>2. supplied = <<>> <=> supply = {}
    <2>1. supplied = <<>> <=> ToSet(supplied) = {}
      BY <1>1 DEF ToSet
    <2> QED
      BY <1>1, <2>1
  <1>3. ToSet(hedged) = {supplied[i] : i \in chosen}
    <2>1. hedged = Kept(supplied, chosen) /\ chosen \cap DOMAIN supplied = chosen
      BY DEF NotPassing
    <2> HIDE DEF hedged, chosen
    <2> QED
      BY <1>1, <2>1, KeptHolds
  <1>4. {supplied[i] : i \in chosen} = {x \in ToSet(supplied) : x.outcome # "pass"}
    BY DEF ToSet
  <1>5. {x \in ToSet(supplied) : x.outcome # "pass"}
          = {findings[i] : i \in {j \in supply : findings[j].outcome # "pass"}}
    BY <1>1
  <1> QED
    BY <1>1, <1>2, <1>3, <1>4, <1>5 DEF supplied

\* A design that is known to have no solution fails the first gate.
LEMMA NoSolutionFails ==
  ASSUME NEW snap, SaysNoSolution(snap),
         IsRead(snap.solve_state) => IsFiniteSet(DOMAIN snap.solve_state.solution_exists)
  PROVE  SolutionExists(snap).outcome = "fail"
  <1> DEFINE flags == snap.solve_state.solution_exists
             matching == MatchingFlags(snap)
  <1>1. CASE ~ IsRead(snap.solve_state)
    <2>1. snap.solve_state.reason = "no_solution"
      BY <1>1 DEF SaysNoSolution
    <2>2. SolutionExists(snap) = SolutionExistsFromAbsence(snap)
      BY <1>1 DEF SolutionExists
    <2> QED
      BY <2>1, <2>2 DEF SolutionExistsFromAbsence, SolutionAbsence, GateFinding
  <1>2. CASE IsRead(snap.solve_state)
    <2>1. PICK i \in matching : matching = {i} /\ ~ flags[i].exists
      BY <1>2 DEF SaysNoSolution, MatchingFlags
    <2>2. Cardinality(matching) = 1 /\ (CHOOSE j \in matching : TRUE) = i
      BY <2>1, FS_Singleton
    <2>3. SolutionExists(snap) = SolutionExistsFromState(snap)
      BY <1>2 DEF SolutionExists
    <2> HIDE DEF matching, flags
    <2> QED
      BY <2>1, <2>2, <2>3 DEF SolutionExistsFromState, GateFinding, matching, flags
  <1> QED
    BY <1>1, <1>2

LEMMA FreshnessHedges ==
  ASSUME NEW snap
  PROVE  Freshness(snap).outcome = "insufficient_evidence"
  BY DEF Freshness, FreshnessFromState, FreshnessFromAbsence, GateFinding

LEMMA NumbersAreVouched ==
  ASSUME PipelineInv
  PROVE  NoNumberIsUnvouched
  <1> SUFFICES ASSUME Numbers PROVE NoNumberIsUnvouched
    BY DEF NoNumberIsUnvouched
  <1> DEFINE supply == request.supply
             data == snapshot.solved_data
             frequencies == data.frequencies
             s11 == data.s_parameters[S11Key]
             intent == snapshot.intent
             parameter == request.parameter
             target == TestedTarget(snapshot, parameter).value
             T == {SolutionExists(snapshot), Convergence(snapshot),
                   Freshness(snapshot), TargetCoverage(snapshot, parameter)}
  <1>1. /\ phase \in Judged
        /\ IsRead(data)
        /\ metrics = ComputeMetrics(Supplied, data, intent, request.reference_impedance)
        /\ metrics.metrics # <<>>
    <2>1. phase \in Judged \ {"judged"} /\ phase \in Judged
      BY DEF PipelineInv, PhasesAgree, Numbers
    <2>2. metrics = IF IsRead(data)
                    THEN ComputeMetrics(Supplied, data, intent, request.reference_impedance)
                    ELSE None
      BY <2>1 DEF PipelineInv, ResultsAgree
    <2>3. IsRead(data)
      BY <2>2 DEF Numbers
    <2> QED
      BY <2>1, <2>2, <2>3 DEF Numbers
  <1>2. /\ parameter \in Number \cup {None}
        /\ intent \in Number \cup {None}
        /\ frequencies \in Seq(Number)
        /\ \A key \in DOMAIN data.s_parameters :
             data.s_parameters[key] \in Seq([re : Number, im : Number])
        /\ IsRead(snapshot.solve_state) =>
             IsFiniteSet(DOMAIN snapshot.solve_state.solution_exists)
    BY <1>1, JudgedHoldsThePieces
  <1>3. /\ gates[1] = SolutionExists(snapshot)
        /\ gates[3] = Freshness(snapshot)
        /\ gates[4] = TargetCoverage(snapshot, parameter)
        /\ gates \in Seq(T)
        /\ DOMAIN gates = 1..4
        /\ supply \subseteq 1..4
    BY <1>1, JudgedHoldsThePieces
  <1>4. /\ ~ RoutesToRefusal(Supplied)
        /\ S11Key \in DOMAIN data.s_parameters
        /\ ~ PreconditionFails(frequencies, s11, intent)
        /\ metrics.arm = IF NotPassing(Supplied) = <<>> THEN "MetricsComputed"
                         ELSE "MetricsComputedWithCaveats"
        /\ metrics.gates = NotPassing(Supplied)
    BY <1>1, NumbersWereComputed
  <1>5. /\ ToSet(Supplied) = {gates[i] : i \in supply}
        /\ Supplied = <<>> <=> supply = {}
        /\ ToSet(NotPassing(Supplied)) =
             {gates[i] : i \in {j \in supply : gates[j].outcome # "pass"}}
    <2>1. supply \in SUBSET DOMAIN gates
      BY <1>3
    <2> HIDE DEF T, supply
    <2> QED
      BY <1>3, <2>1, SuppliedAndHedged DEF Supplied, supply
  <1>6. supply # {}
    BY <1>4, <1>5 DEF RoutesToRefusal
  <1>7. \A i \in supply : gates[i].outcome # "fail"
    <2> SUFFICES ASSUME NEW i \in supply, gates[i].outcome = "fail" PROVE FALSE
      OBVIOUS
    <2>1. PICK j \in DOMAIN Supplied : Supplied[j] = gates[i]
      BY <1>5 DEF ToSet
    <2>2. Supplied[j].outcome \in Qualifying \cup {"pass"}
      BY <1>4 DEF RoutesToRefusal
    <2> QED
      BY <2>1, <2>2 DEF Qualifying
  <1>8. ASSUME supply = 1..4 PROVE ~ SaysNoSolution(snapshot)
    <2>1. gates[1].outcome # "fail"
      BY <1>7, <1>8
    <2> QED
      BY <1>2, <1>3, <2>1, NoSolutionFails
  <1>9. ASSUME supply = 1..4, target # None PROVE SweepSpans(frequencies, target)
    <2> DEFINE asked == IF parameter # None THEN parameter ELSE intent
    <2>1. target = asked /\ asked # None /\ Finite(asked)
      BY <1>9 DEF TestedTarget, NamedTarget
    <2>2. frequencies # <<>>
      <3>1. s11 # <<>> /\ Len(frequencies) = Len(s11)
        BY <1>4 DEF PreconditionFails, SeriesIsUsable, SamplesAreUsable
      <3>2. s11 \in Seq([re : Number, im : Number])
        BY <1>2, <1>4
      <3> HIDE DEF s11, frequencies
      <3>3. Len(s11) # 0
        BY <3>1, <3>2
      <3> QED
        BY <1>2, <3>1, <3>3
    <2>3. gates[4].outcome = IF Covered(frequencies, asked) THEN "pass" ELSE "fail"
      BY <1>1, <1>2, <1>3, <2>1, <2>2, CoverageOutcome
    <2>4. gates[4].outcome # "fail"
      BY <1>7, <1>9
    <2>5. Covered(frequencies, asked)
      BY <2>3, <2>4
    <2> QED
      BY <1>2, <2>1, <2>2, <2>5, CoveredIsSpanned
  <1>10. ASSUME 3 \in supply PROVE metrics.arm = "MetricsComputedWithCaveats"
    <2>1. gates[3].outcome # "pass"
      BY <1>3, FreshnessHedges
    <2>2. gates[3] \in ToSet(NotPassing(Supplied))
      BY <1>5, <1>10, <2>1
    <2>3. NotPassing(Supplied) # <<>>
      BY <2>2 DEF ToSet
    <2> QED
      BY <1>4, <2>3
  <1>11. \A i \in supply : gates[i].outcome # "pass" => gates[i] \in ToSet(metrics.gates)
    BY <1>4, <1>5
  <1> QED
    BY <1>6, <1>8, <1>9, <1>10, <1>11 DEF NoNumberIsUnvouched

\* No number goes out that the gates did not vouch for or hedge, whatever the
\* solve state, the sweep, the target and the findings handed on
\* (metrics/assembler.py routing).
THEOREM EveryNumberIsVouched == Spec => []NoNumberIsUnvouched
  <1>1. PipelineInv => NoNumberIsUnvouched
    BY NumbersAreVouched
  <1> QED
    BY <1>1, ResultsAreTheirFunctions, PTL

----------------------------------------------------------------------------
(* When the formulas raise although coverage was handed on.                *)

\* The series itself is unusable, the intent is not a finite number, or coverage
\* was judged of another target than the one the formulas take.
RaisedForACause ==
  (metrics # None /\ metrics.arm = "ValueError" /\ 4 \in request.supply) =>
    \/ ~ SeriesIsUsable(snapshot.solved_data.frequencies,
                        snapshot.solved_data.s_parameters[S11Key])
    \/ snapshot.intent \in NonFinite
    \/ snapshot.intent # None /\ request.parameter # None

\* What raises in the formulas got past the routing and fails a precondition.
LEMMA RaisedByAFormula ==
  ASSUME NEW findings, NEW solved, NEW intent, NEW z0,
         ComputeMetrics(findings, solved, intent, z0).arm = "ValueError"
  PROVE  /\ ~ RoutesToRefusal(findings)
         /\ S11Key \in DOMAIN solved.s_parameters
         /\ PreconditionFails(solved.frequencies, solved.s_parameters[S11Key], intent)
  <1> DEFINE made == ComputeMetrics(findings, solved, intent, z0)
             s11 == solved.s_parameters[S11Key]
  <1>1. /\ MetricsRefused(findings).arm = "MetricsRefused"
        /\ \A error : Raised(error).arm = error
    BY DEF MetricsRefused, Raised
  <1>2. ~ RoutesToRefusal(findings)
    <2>1. RoutesToRefusal(findings) => made = MetricsRefused(findings)
      BY DEF ComputeMetrics
    <2> QED
      BY <1>1, <2>1
  <1>3. S11Key \in DOMAIN solved.s_parameters
    <2>1. S11Key \notin DOMAIN solved.s_parameters => made = Raised("MetricsAssemblyError")
      BY <1>2 DEF ComputeMetrics
    <2> QED
      BY <1>1, <2>1
  <1>4. made = IF PreconditionFails(solved.frequencies, s11, intent) THEN Raised("ValueError")
               ELSE Computed(findings, solved.frequencies, s11, intent, z0)
    BY <1>2, <1>3 DEF ComputeMetrics
  <1>5. Computed(findings, solved.frequencies, s11, intent, z0).arm
          \in {"MetricsAssemblyError", "MetricsComputed", "MetricsComputedWithCaveats"}
    <2> DEFINE computed == ComputedValues(solved.frequencies, s11, intent, z0)
               records == FiniteRecords(computed.values, GateStatus(findings))
               omitted == Ordered(computed.omissions \o NonFiniteOmissions(computed.values))
    <2>1. Computed(findings, solved.frequencies, s11, intent, z0) =
            IF records = <<>> THEN Raised("MetricsAssemblyError")
            ELSE [arm |-> IF NotPassing(findings) = <<>> THEN "MetricsComputed"
                          ELSE "MetricsComputedWithCaveats",
                  metrics |-> records, omitted |-> omitted, gates |-> NotPassing(findings)]
      BY DEF Computed
    <2> HIDE DEF records, omitted
    <2> QED
      BY <1>1, <2>1
  <1> QED
    BY <1>2, <1>3, <1>4, <1>5

LEMMA CausesOfRaising ==
  ASSUME PipelineInv
  PROVE  RaisedForACause
  <1> DEFINE data == snapshot.solved_data
             frequencies == data.frequencies
             s11 == data.s_parameters[S11Key]
             intent == snapshot.intent
  <1> SUFFICES ASSUME metrics # None, metrics.arm = "ValueError", 4 \in request.supply,
                      SeriesIsUsable(frequencies, s11), intent \notin NonFinite,
                      intent = None \/ request.parameter = None
               PROVE  FALSE
    BY DEF RaisedForACause
  <1>1. /\ phase \in Judged /\ IsRead(data)
        /\ metrics = ComputeMetrics(Supplied, data, intent, request.reference_impedance)
    <2>1. phase \in Judged \ {"judged"} /\ phase \in Judged
      BY DEF PipelineInv, PhasesAgree
    <2>2. metrics = IF IsRead(data)
                    THEN ComputeMetrics(Supplied, data, intent, request.reference_impedance)
                    ELSE None
      BY <2>1 DEF PipelineInv, ResultsAgree
    <2> QED
      BY <2>1, <2>2
  <1>2. /\ request.parameter \in Number \cup {None} /\ intent \in Number \cup {None}
        /\ frequencies \in Seq(Number)
        /\ \A key \in DOMAIN data.s_parameters :
             data.s_parameters[key] \in Seq([re : Number, im : Number])
        /\ gates[4] = TargetCoverage(snapshot, request.parameter)
        /\ DOMAIN gates = 1..4 /\ request.supply \subseteq 1..4
        /\ gates \in Seq({SolutionExists(snapshot), Convergence(snapshot),
                          Freshness(snapshot), TargetCoverage(snapshot, request.parameter)})
    BY <1>1, JudgedHoldsThePieces
  <1>3. /\ ~ RoutesToRefusal(Supplied)
        /\ S11Key \in DOMAIN data.s_parameters
        /\ PreconditionFails(frequencies, s11, intent)
    BY <1>1, RaisedByAFormula
  <1>4. intent # None /\ request.parameter = None /\ ~ TargetIsUsable(frequencies, s11, intent)
    BY <1>3 DEF PreconditionFails
  <1>5. intent \in Int /\ Finite(intent)
    BY <1>2, <1>4 DEF Number, Finite
  <1>6. frequencies # <<>>
    <2>1. s11 # <<>> /\ Len(frequencies) = Len(s11)
      BY DEF SeriesIsUsable, SamplesAreUsable
    <2>2. s11 \in Seq([re : Number, im : Number])
      BY <1>2, <1>3
    <2> HIDE DEF s11, frequencies
    <2>3. Len(s11) # 0
      BY <2>1, <2>2
    <2> QED
      BY <1>2, <2>1, <2>3
  <1>7. gates[4].outcome = IF Covered(frequencies, intent) THEN "pass" ELSE "fail"
    BY <1>1, <1>2, <1>4, <1>5, <1>6, CoverageOutcome
  <1>8. gates[4].outcome # "fail"
    <2>1. ToSet(Supplied) = {gates[i] : i \in request.supply}
      <3>1. request.supply \in SUBSET DOMAIN gates
        BY <1>2
      <3> QED
        BY <1>2, <3>1, SuppliedAndHedged DEF Supplied
    <2>2. PICK j \in DOMAIN Supplied : Supplied[j] = gates[4]
      BY <2>1 DEF ToSet
    <2>3. Supplied[j].outcome \in Qualifying \cup {"pass"}
      BY <1>3 DEF RoutesToRefusal
    <2> QED
      BY <2>2, <2>3 DEF Qualifying
  <1>9. Covered(frequencies, intent)
    BY <1>7, <1>8
  <1> QED
    BY <1>2, <1>4, <1>5, <1>6, <1>9, CoveredIsUsable

\* The causes the refuted promise of sparams.py leaves open are all there are: with
\* coverage's finding handed on, the formulas raise only for a series the solver's
\* reader should not have returned, an intent that is not finite, or an intent when
\* coverage was asked about another target.
THEOREM FormulasRaiseForACause == Spec => []RaisedForACause
  <1>1. PipelineInv => RaisedForACause
    BY CausesOfRaising
  <1> QED
    BY <1>1, ResultsAreTheirFunctions, PTL

----------------------------------------------------------------------------
(* Comprehensions keep the order.                                          *)

\* p numbers, in order, the chosen places up to k, and t is what is there.
Numbering(p, t, s, chosen, k) ==
  /\ \A a \in 1..Len(t) : p[a] \in chosen /\ p[a] \in 1..k /\ t[a] = s[p[a]]
  /\ \A a, b \in 1..Len(t) : a < b => p[a] < p[b]
  /\ \A i \in chosen \cap 1..k : \E a \in 1..Len(t) : p[a] = i

LEMMA NumberingGrows ==
  ASSUME NEW T, NEW t \in Seq(T), NEW s, NEW chosen, NEW k \in Nat, NEW p,
         Numbering(p, t, s, chosen, k), k + 1 \in chosen
  PROVE  \E q : Numbering(q, Append(t, s[k + 1]), s, chosen, k + 1)
  <1>1. PICK n \in Nat : n = Len(t)
    OBVIOUS
  <1> DEFINE next == Append(t, s[k + 1])
             q == [a \in 1..(n + 1) |-> IF a = n + 1 THEN k + 1 ELSE p[a]]
  <1>2. /\ Len(next) = n + 1
        /\ \A a \in 1..n : next[a] = t[a]
        /\ next[n + 1] = s[k + 1]
    BY <1>1
  <1>3. /\ \A a \in 1..n : q[a] = p[a]
        /\ q[n + 1] = k + 1
        /\ n + 1 \in 1..(n + 1)
    OBVIOUS
  <1>4. /\ \A a \in 1..n : p[a] \in chosen /\ p[a] \in 1..k /\ t[a] = s[p[a]]
        /\ \A a, b \in 1..n : a < b => p[a] < p[b]
        /\ \A i \in chosen \cap 1..k : \E a \in 1..n : p[a] = i
    BY <1>1 DEF Numbering
  <1> HIDE DEF next, q
  <1>5. \A a \in 1..(n + 1) : a \in 1..n \/ a = n + 1
    OBVIOUS
  <1>6. \A a \in 1..(n + 1) : q[a] \in chosen /\ q[a] \in 1..(k + 1) /\ next[a] = s[q[a]]
    <2> TAKE a \in 1..(n + 1)
    <2>1. CASE a \in 1..n
      BY <1>2, <1>3, <1>4, <2>1
    <2>2. CASE a = n + 1
      BY <1>2, <1>3, <2>2
    <2> QED
      BY <1>5, <2>1, <2>2
  <1>7. \A a, b \in 1..(n + 1) : a < b => q[a] < q[b]
    <2> TAKE a, b \in 1..(n + 1)
    <2> SUFFICES ASSUME a < b PROVE q[a] < q[b]
      OBVIOUS
    <2>1. a \in 1..n
      OBVIOUS
    <2>2. CASE b \in 1..n
      BY <1>3, <1>4, <2>1, <2>2
    <2>3. CASE b = n + 1
      <3>1. p[a] \in 1..k
        BY <1>4, <2>1
      <3> QED
        BY <1>3, <2>1, <2>3, <3>1
    <2> QED
      BY <1>5, <2>2, <2>3
  <1>8. \A i \in chosen \cap 1..(k + 1) : \E a \in 1..(n + 1) : q[a] = i
    <2> TAKE i \in chosen \cap 1..(k + 1)
    <2>1. CASE i = k + 1
      BY <1>3, <2>1
    <2>2. CASE i # k + 1
      <3>1. i \in chosen \cap 1..k
        BY <2>2
      <3>2. PICK a \in 1..n : p[a] = i
        BY <1>4, <3>1
      <3> QED
        BY <1>3, <3>2
    <2> QED
      BY <2>1, <2>2
  <1>9. \A m \in Nat : m = n + 1 /\ Len(next) = m => Numbering(q, next, s, chosen, k + 1)
    BY <1>6, <1>7, <1>8 DEF Numbering
  <1>10. n + 1 \in Nat
    OBVIOUS
  <1>11. Numbering(q, next, s, chosen, k + 1)
    BY <1>2, <1>9, <1>10
  <1> QED
    BY <1>11 DEF next

\* A comprehension is numbered by the chosen places, in their order.
LEMMA KeptInOrder ==
  ASSUME NEW T, NEW s \in Seq(T), NEW chosen
  PROVE  \E p : Numbering(p, Kept(s, chosen), s, chosen, Len(s))
  <1>0. PICK n \in Nat : \E f : /\ n = Len(s)
                                /\ KeptAlong(f, <<>>, s, chosen, n, Seq(T))
                                /\ Kept(s, chosen) = f[n]
    BY KeptTurns
  <1>1. PICK f : /\ n = Len(s)
                 /\ KeptAlong(f, <<>>, s, chosen, n, Seq(T))
                 /\ Kept(s, chosen) = f[n]
    BY <1>0
  <1> DEFINE S == {k \in Nat : k <= n => \E p : Numbering(p, f[k], s, chosen, k)}
  <1>2. 0 \in S
    <2>1. f[0] = <<>> /\ Len(<<>>) = 0
      BY <1>1 DEF KeptAlong
    <2>2. Numbering(<<>>, <<>>, s, chosen, 0)
      BY <2>1 DEF Numbering
    <2> QED
      BY <2>1, <2>2
  <1>3. ASSUME NEW k \in Nat, k \in S PROVE k + 1 \in S
    <2> SUFFICES ASSUME k + 1 <= n
                 PROVE  \E p : Numbering(p, f[k + 1], s, chosen, k + 1)
      OBVIOUS
    <2>1. PICK p : Numbering(p, f[k], s, chosen, k)
      BY <1>3
    <2>2. f[k] \in Seq(T) /\ f[k + 1] = KeptOn(f[k], s, chosen, k + 1)
      <3>1. k \in 0..n /\ k + 1 \in 1..n /\ (k + 1) - 1 = k
        OBVIOUS
      <3> QED
        BY <1>1, <3>1 DEF KeptAlong
    <2>3. CASE k + 1 \in chosen
      <3>1. f[k + 1] = Append(f[k], s[k + 1])
        BY <2>2, <2>3 DEF KeptOn
      <3>2. \E q : Numbering(q, Append(f[k], s[k + 1]), s, chosen, k + 1)
        BY <2>1, <2>2, <2>3, NumberingGrows
      <3> QED
        BY <3>1, <3>2
    <2>4. CASE k + 1 \notin chosen
      <3>1. f[k + 1] = f[k]
        BY <2>2, <2>4 DEF KeptOn
      <3>2. \A i : i \in chosen /\ i \in 1..(k + 1) => i \in 1..k
        BY <2>4
      <3>3. \A i \in 1..k : i \in 1..(k + 1)
        OBVIOUS
      <3>4. Numbering(p, f[k], s, chosen, k + 1)
        BY <2>1, <3>2, <3>3 DEF Numbering
      <3> QED
        BY <3>1, <3>4
    <2> QED
      BY <2>3, <2>4
  <1> HIDE DEF S
  <1>4. Nat \subseteq S
    BY <1>2, <1>3, NatSetInduction
  <1>5. n \in S /\ n <= n
    BY <1>4
  <1> QED
    BY <1>1, <1>5 DEF S

\* The chosen places may lie side by side: then they are kept as they lie.
Run(v, s, from, count) ==
  /\ Len(v) = count
  /\ \A j \in 1..count : v[j] = s[from + j]

LEMMA RunGrows ==
  ASSUME NEW T, NEW v \in Seq(T), NEW s, NEW from \in Nat, NEW count \in Nat,
         Run(v, s, from, count)
  PROVE  Run(Append(v, s[from + count + 1]), s, from, count + 1)
  <1>1. /\ Len(Append(v, s[from + count + 1])) = count + 1
        /\ \A j \in 1..count : Append(v, s[from + count + 1])[j] = v[j]
        /\ Append(v, s[from + count + 1])[count + 1] = s[from + count + 1]
    BY DEF Run
  <1>2. \A j \in 1..(count + 1) : j \in 1..count \/ (j = count + 1 /\ from + j = from + count + 1)
    OBVIOUS
  <1> HIDE DEF Run
  <1>3. \A j \in 1..count : v[j] = s[from + j]
    BY DEF Run
  <1> QED
    BY <1>1, <1>2, <1>3 DEF Run

LEMMA KeptIsTheRun ==
  ASSUME NEW T, NEW s \in Seq(T), NEW chosen, NEW from \in Nat, NEW count \in Nat,
         from + count <= Len(s),
         \A i \in DOMAIN s : i \in chosen <=> i \in (from + 1)..(from + count)
  PROVE  Run(Kept(s, chosen), s, from, count)
  <1>0. PICK n \in Nat : \E f : /\ n = Len(s)
                                /\ KeptAlong(f, <<>>, s, chosen, n, Seq(T))
                                /\ Kept(s, chosen) = f[n]
    BY KeptTurns
  <1>1. PICK f : /\ n = Len(s)
                 /\ KeptAlong(f, <<>>, s, chosen, n, Seq(T))
                 /\ Kept(s, chosen) = f[n]
    BY <1>0
  <1>2. /\ from + count <= n
        /\ \A i \in 1..n : i \in chosen <=> i \in (from + 1)..(from + count)
    BY <1>1
  <1> DEFINE held(k) == IF k <= from THEN 0
                        ELSE IF k <= from + count THEN k - from ELSE count
             S == {k \in Nat : k <= n => Run(f[k], s, from, held(k))}
  <1>3. 0 \in S
    <2>1. f[0] = <<>> /\ held(0) = 0
      BY <1>1 DEF KeptAlong
    <2>2. Run(<<>>, s, from, 0)
      BY DEF Run
    <2> QED
      BY <2>1, <2>2
  <1>4. ASSUME NEW k \in Nat, k \in S PROVE k + 1 \in S
    <2> SUFFICES ASSUME k + 1 <= n PROVE Run(f[k + 1], s, from, held(k + 1))
      OBVIOUS
    <2>1. Run(f[k], s, from, held(k)) /\ held(k) \in Nat
      BY <1>4
    <2>2. f[k] \in Seq(T) /\ f[k + 1] = KeptOn(f[k], s, chosen, k + 1)
      <3>1. k \in 0..n /\ k + 1 \in 1..n /\ (k + 1) - 1 = k
        OBVIOUS
      <3> QED
        BY <1>1, <3>1 DEF KeptAlong
    <2>3. k + 1 \in chosen <=> k + 1 \in (from + 1)..(from + count)
      BY <1>2
    <2>4. CASE k + 1 \in chosen
      <3>1. held(k + 1) = held(k) + 1 /\ from + held(k) + 1 = k + 1
        BY <2>3, <2>4
      <3>2. f[k + 1] = Append(f[k], s[from + held(k) + 1])
        BY <2>2, <2>4, <3>1 DEF KeptOn
      <3> HIDE DEF held
      <3> QED
        BY <2>1, <2>2, <3>1, <3>2, RunGrows
    <2>5. CASE k + 1 \notin chosen
      <3>1. held(k + 1) = held(k)
        BY <2>3, <2>5
      <3>2. f[k + 1] = f[k]
        BY <2>2, <2>5 DEF KeptOn
      <3> QED
        BY <2>1, <3>1, <3>2
    <2> QED
      BY <2>4, <2>5
  <1> HIDE DEF S
  <1>5. Nat \subseteq S
    BY <1>3, <1>4, NatSetInduction
  <1>6. n \in S /\ n <= n /\ held(n) = count
    BY <1>2, <1>5
  <1> QED
    BY <1>1, <1>6 DEF S

----------------------------------------------------------------------------
(* The findings: what the merge decides and what the text shows of it.     *)

\* The entries of a kind are the entries of block, in order, after the first
\* from; or there are none.
Shows(t, kind, block, from) ==
  /\ from + Len(block) <= Len(t)
  /\ \A i \in DOMAIN t : t[i].kind = kind <=> i \in (from + 1)..(from + Len(block))
  /\ \A j \in 1..Len(block) : t[from + j] = block[j]

Without(t, kind) == \A i \in DOMAIN t : t[i].kind # kind

\* Entries put after one another.
LEMMA EntriesAdd ==
  ASSUME NEW T, NEW s \in Seq(T), NEW t \in Seq(T), NEW kind
  PROVE  /\ s \o t \in Seq(T)
         /\ Without(s, kind) /\ Without(t, kind) => Without(s \o t, kind)
         /\ Without(s, kind) /\ (\A j \in DOMAIN t : t[j].kind = kind)
              => Shows(s \o t, kind, t, Len(s))
         /\ \A block : \A from \in Nat :
              Len(block) \in Nat /\ Shows(s, kind, block, from) /\ Without(t, kind)
                => Shows(s \o t, kind, block, from)
  <1>1. PICK m \in Nat, n \in Nat : m = Len(s) /\ n = Len(t)
    OBVIOUS
  <1> DEFINE u == s \o t
  <1>2. /\ u \in Seq(T) /\ Len(u) = m + n
        /\ DOMAIN u = 1..(m + n) /\ DOMAIN s = 1..m /\ DOMAIN t = 1..n
        /\ \A i \in 1..m : u[i] = s[i]
        /\ \A j \in 1..n : u[m + j] = t[j]
    BY <1>1
  <1> HIDE DEF u
  <1>3. ASSUME NEW i \in 1..(m + n)
        PROVE  \/ i \in 1..m /\ u[i] = s[i]
               \/ i > m /\ \E j \in 1..n : u[i] = t[j]
    <2>1. CASE i <= m
      BY <1>2, <2>1
    <2>2. CASE i > m
      <3>1. i - m \in 1..n /\ i = m + (i - m)
        BY <2>2
      <3> QED
        BY <1>2, <2>2, <3>1
    <2> QED
      BY <2>1, <2>2
  <1>4. ASSUME Without(s, kind), Without(t, kind), NEW i \in 1..(m + n)
        PROVE  u[i].kind # kind
    <2>1. (\A k \in 1..m : s[k].kind # kind) /\ (\A k \in 1..n : t[k].kind # kind)
      BY <1>2, <1>4 DEF Without
    <2> QED
      BY <1>3, <2>1
  <1>5. ASSUME Without(s, kind), \A j \in DOMAIN t : t[j].kind = kind
        PROVE  Shows(u, kind, t, m)
    <2>1. (\A k \in 1..m : s[k].kind # kind) /\ (\A k \in 1..n : t[k].kind = kind)
      BY <1>2, <1>5 DEF Without
    <2>2. ASSUME NEW i \in 1..(m + n)
          PROVE  u[i].kind = kind <=> i \in (m + 1)..(m + n)
      <3>1. CASE i \in 1..m /\ u[i] = s[i]
        <4>1. i \notin (m + 1)..(m + n)
          BY <3>1
        <4> QED
          BY <2>1, <3>1, <4>1
      <3>2. CASE i > m /\ \E j \in 1..n : u[i] = t[j]
        <4>1. i \in (m + 1)..(m + n)
          BY <3>2
        <4> QED
          BY <2>1, <3>2, <4>1
      <3> QED
        BY <1>3, <3>1, <3>2
    <2> QED
      BY <1>1, <1>2, <2>2 DEF Shows
  <1>6. ASSUME NEW block, NEW from \in Nat, Len(block) \in Nat,
               Shows(s, kind, block, from), Without(t, kind)
        PROVE  Shows(u, kind, block, from)
    <2>1. PICK b \in Nat : b = Len(block)
      BY <1>6
    <2>2. /\ from + b <= m
          /\ \A i \in 1..m : s[i].kind = kind <=> i \in (from + 1)..(from + b)
          /\ \A j \in 1..b : s[from + j] = block[j]
      BY <1>1, <1>2, <1>6, <2>1 DEF Shows
    <2>3. \A k \in 1..n : t[k].kind # kind
      BY <1>2, <1>6 DEF Without
    <2>4. ASSUME NEW i \in 1..(m + n)
          PROVE  u[i].kind = kind <=> i \in (from + 1)..(from + b)
      <3>1. CASE i \in 1..m /\ u[i] = s[i]
        BY <2>2, <3>1
      <3>2. CASE i > m /\ \E j \in 1..n : u[i] = t[j]
        <4>1. i \notin (from + 1)..(from + b)
          BY <2>2, <3>2
        <4> QED
          BY <2>3, <3>2, <4>1
      <3> QED
        BY <1>3, <3>1, <3>2
    <2>5. \A j \in 1..b : u[from + j] = block[j]
      <3> TAKE j \in 1..b
      <3>1. from + j \in 1..m
        BY <2>2
      <3> QED
        BY <1>2, <2>2, <3>1
    <2>6. from + b <= m + n
      BY <2>2
    <2> QED
      BY <1>2, <2>1, <2>4, <2>5, <2>6 DEF Shows
  <1>7. Without(s, kind) /\ Without(t, kind) => Without(u, kind)
    BY <1>2, <1>4 DEF Without
  <1> QED
    BY <1>1, <1>2, <1>5, <1>6, <1>7 DEF u

\* The entries that are there only under a condition, and all of them.
Conditional ==
  {"accepted_heading", "no_findings", "refused_heading", "attribution",
   "refusal_provenance", "passthrough", "suggested_action", "presentation"}

EntryKinds == Conditional \cup {"counts", "accepted", "refused"}

Entries(accepted, rejected) ==
  {Part(kind, of) :
     kind \in EntryKinds,
     of \in {None, <<Len(accepted), Len(rejected)>>} \cup ToSet(accepted) \cup ToSet(rejected)}

\* What is there only under a condition is one entry of its own kind or none.
LEMMA ConditionalEntry ==
  ASSUME NEW T, NEW condition, NEW kind, Part(kind, None) \in T
  PROVE  /\ If(condition, kind) \in Seq(T)
         /\ \A other : other # kind => Without(If(condition, kind), other)
  <1>1. CASE condition
    <2>1. If(condition, kind) = <<Part(kind, None)>>
      BY <1>1 DEF If
    <2>2. DOMAIN <<Part(kind, None)>> = {1} /\ Part(kind, None).kind = kind
      BY DEF Part
    <2> QED
      BY <2>1, <2>2 DEF Without
  <1>2. CASE ~ condition
    BY <1>2 DEF If, Without
  <1> QED
    BY <1>1, <1>2

BlockOf(kind, list) == [i \in DOMAIN list |-> Part(kind, list[i])]

\* What a reader of the entries of a kind is shown.
ShownOf(t, kind) ==
  LET shown == Kept(t, {i \in DOMAIN t : t[i].kind = kind})
  IN [i \in DOMAIN shown |-> shown[i].of]

LEMMA ShownIsTheBlock ==
  ASSUME NEW T, NEW t \in Seq(T), NEW V, NEW list \in Seq(V), NEW kind, NEW from \in Nat,
         Shows(t, kind, BlockOf(kind, list), from)
  PROVE  ShownOf(t, kind) = list
  <1> DEFINE chosen == {i \in DOMAIN t : t[i].kind = kind}
             shown == Kept(t, chosen)
             block == BlockOf(kind, list)
  <1>1. PICK b \in Nat : b = Len(list) /\ DOMAIN list = 1..b
    OBVIOUS
  <1>2. DOMAIN block = 1..b /\ Len(block) = b
    BY <1>1 DEF BlockOf
  <1>3. \A j \in 1..b : block[j] = Part(kind, list[j])
    BY <1>1 DEF BlockOf
  <1>4. /\ from + b <= Len(t)
        /\ \A i \in DOMAIN t : t[i].kind = kind <=> i \in (from + 1)..(from + b)
        /\ \A j \in 1..b : t[from + j] = Part(kind, list[j])
    <2> HIDE DEF block
    <2> SUFFICES ASSUME Shows(t, kind, block, from)
                 PROVE  /\ from + b <= Len(t)
                        /\ \A i \in DOMAIN t : t[i].kind = kind <=> i \in (from + 1)..(from + b)
                        /\ \A j \in 1..b : t[from + j] = Part(kind, list[j])
      BY DEF block
    <2> QED
      BY <1>2, <1>3 DEF Shows
  <1>5. Run(shown, t, from, b)
    <2>1. \A i \in DOMAIN t : i \in chosen <=> i \in (from + 1)..(from + b)
      BY <1>4
    <2> HIDE DEF chosen
    <2> QED
      BY <1>4, <2>1, KeptIsTheRun
  <1>6. shown \in Seq(T)
    BY KeptHolds
  <1> HIDE DEF shown
  <1>7. DOMAIN shown = 1..b /\ \A j \in 1..b : shown[j].of = list[j]
    <2>1. Len(shown) = b /\ \A j \in 1..b : shown[j] = t[from + j]
      BY <1>5 DEF Run
    <2>2. DOMAIN shown = 1..b
      BY <1>6, <2>1
    <2>3. \A j \in 1..b : shown[j] = Part(kind, list[j])
      BY <1>4, <2>1
    <2>4. \A x : Part(kind, x).of = x
      BY DEF Part
    <2> QED
      BY <2>2, <2>3, <2>4
  <1>8. list = [j \in 1..b |-> list[j]]
    BY <1>1
  <1> QED
    BY <1>7, <1>8 DEF shown, ShownOf

\* The text shows what was accepted and what was refused, each in its order.
LEMMA TextShowsTheVerdicts ==
  ASSUME NEW A, NEW R, NEW verdict, verdict.accepted \in Seq(A), verdict.rejected \in Seq(R)
  PROVE  /\ ShownOf(FindingsTemplateText(verdict), "accepted") = verdict.accepted
         /\ ShownOf(FindingsTemplateText(verdict), "refused") = verdict.rejected
  <1> DEFINE accepted == verdict.accepted
             rejected == verdict.rejected
             any == accepted # <<>> \/ rejected # <<>>
             suggested == \E i \in DOMAIN accepted : accepted[i].suggests
             T == Entries(accepted, rejected)
             acc == BlockOf("accepted", accepted)
             rej == BlockOf("refused", rejected)
             counts == Part("counts", <<Len(accepted), Len(rejected)>>)
  <1>1. /\ counts \in T
        /\ \A kind \in Conditional : Part(kind, None) \in T
        /\ \A x \in ToSet(accepted) : Part("accepted", x) \in T
        /\ \A x \in ToSet(rejected) : Part("refused", x) \in T
    <2>1. \A kind \in EntryKinds,
             of \in {None, <<Len(accepted), Len(rejected)>>}
                      \cup ToSet(accepted) \cup ToSet(rejected) : Part(kind, of) \in T
      BY DEF Entries
    <2>2. /\ Conditional \subseteq EntryKinds
          /\ {"counts", "accepted", "refused"} \subseteq EntryKinds
      BY DEF EntryKinds
    <2> HIDE DEF T, accepted, rejected
    <2> QED
      BY <2>1, <2>2
  <1>2. PICK a \in Nat, r \in Nat : a = Len(accepted) /\ r = Len(rejected)
    OBVIOUS
  <1>3. /\ DOMAIN accepted = 1..a /\ DOMAIN rejected = 1..r
        /\ \A i \in 1..a : accepted[i] \in ToSet(accepted)
        /\ \A i \in 1..r : rejected[i] \in ToSet(rejected)
    BY <1>2 DEF ToSet
  <1> HIDE DEF T, counts
  <1>4. /\ acc \in Seq(T) /\ DOMAIN acc = 1..a /\ Len(acc) = a
        /\ rej \in Seq(T) /\ DOMAIN rej = 1..r /\ Len(rej) = r
    BY <1>1, <1>3 DEF BlockOf
  <1>5. /\ \A i \in DOMAIN acc : acc[i].kind = "accepted"
        /\ \A i \in DOMAIN rej : rej[i].kind = "refused"
    BY <1>3 DEF Part, BlockOf
  <1> DEFINE h == <<counts>>
             p1 == If(accepted # <<>>, "accepted_heading")
             p2 == If(accepted = <<>>, "no_findings")
             p3 == If(rejected # <<>>, "refused_heading")
             p4 == If(accepted # <<>>, "attribution")
             p5 == If(rejected # <<>>, "refusal_provenance")
             p6 == If(any, "passthrough")
             p7 == If(suggested, "suggested_action")
             p8 == If(any, "presentation")
             t1 == h \o p1
             t2 == t1 \o acc
             t3 == t2 \o p2
             t4 == t3 \o p3
             t5 == t4 \o rej
             t6 == t5 \o p4
             t7 == t6 \o p5
             t8 == t7 \o p6
             t9 == t8 \o p7
             t10 == t9 \o p8
  <1>6. FindingsTemplateText(verdict) = t10
    BY DEF FindingsTemplateText, counts, BlockOf
  <1>7. h \in Seq(T) /\ Without(h, "accepted") /\ Without(h, "refused")
    <2>1. h \in Seq(T) /\ DOMAIN h = {1} /\ h[1] = counts
      BY <1>1
    <2>2. counts.kind # "accepted" /\ counts.kind # "refused"
      BY DEF counts, Part
    <2> QED
      BY <2>1, <2>2 DEF Without
  <1> DEFINE aside(p) == p \in Seq(T) /\ Without(p, "accepted") /\ Without(p, "refused")
  <1>8. aside(p1) /\ aside(p2) /\ aside(p3) /\ aside(p4)
        /\ aside(p5) /\ aside(p6) /\ aside(p7) /\ aside(p8)
    <2>1. ASSUME NEW condition, NEW kind \in Conditional
          PROVE  aside(If(condition, kind))
      <3>1. Part(kind, None) \in T /\ kind # "accepted" /\ kind # "refused"
        BY <1>1 DEF Conditional
      <3> QED
        BY <3>1, ConditionalEntry
    <2> HIDE DEF aside
    <2> QED
      BY <2>1 DEF Conditional
  <1> HIDE DEF h, acc, rej, p1, p2, p3, p4, p5, p6, p7, p8
  <1>9. aside(t1)
    BY <1>7, <1>8, EntriesAdd
  <1> HIDE DEF t1
  <1>10. PICK f \in Nat : f = Len(t1)
    BY <1>9
  <1>11. Without(acc, "refused") /\ Without(rej, "accepted")
    BY <1>5 DEF Without
  <1> DEFINE one(t) == t \in Seq(T) /\ Shows(t, "accepted", acc, f) /\ Without(t, "refused")
  <1>12. one(t2)
    <2>1. t2 \in Seq(T) /\ Without(t2, "refused")
      BY <1>4, <1>9, <1>11, EntriesAdd
    <2>2. Shows(t2, "accepted", acc, f)
      BY <1>4, <1>5, <1>9, <1>10, EntriesAdd
    <2> QED
      BY <2>1, <2>2
  <1>13. ASSUME NEW t, one(t), NEW p, aside(p) PROVE one(t \o p)
    BY <1>4, <1>13, EntriesAdd
  <1> HIDE DEF t2, one
  <1>14. one(t3)
    BY <1>8, <1>12, <1>13
  <1> HIDE DEF t3
  <1>15. one(t4)
    BY <1>8, <1>13, <1>14
  <1> HIDE DEF t4
  <1>16. PICK g \in Nat : g = Len(t4)
    BY <1>15 DEF one
  <1> DEFINE both(t) == /\ t \in Seq(T)
                        /\ Shows(t, "accepted", acc, f)
                        /\ Shows(t, "refused", rej, g)
  <1>17. both(t5)
    <2>1. t4 \in Seq(T) /\ Shows(t4, "accepted", acc, f) /\ Without(t4, "refused")
      BY <1>15 DEF one
    <2>2. t5 \in Seq(T) /\ Shows(t5, "accepted", acc, f)
      BY <1>4, <1>11, <2>1, EntriesAdd
    <2>3. Shows(t5, "refused", rej, g)
      BY <1>4, <1>5, <1>16, <2>1, EntriesAdd
    <2> QED
      BY <2>2, <2>3
  <1>18. ASSUME NEW t, both(t), NEW p, aside(p) PROVE both(t \o p)
    BY <1>4, <1>18, EntriesAdd
  <1> HIDE DEF t5, both, aside
  <1>19. both(t6)
    BY <1>8, <1>17, <1>18
  <1> HIDE DEF t6
  <1>20. both(t7)
    BY <1>8, <1>18, <1>19
  <1> HIDE DEF t7
  <1>21. both(t8)
    BY <1>8, <1>18, <1>20
  <1> HIDE DEF t8
  <1>22. both(t9)
    BY <1>8, <1>18, <1>21
  <1> HIDE DEF t9
  <1>23. both(t10)
    BY <1>8, <1>18, <1>22
  <1> HIDE DEF t10
  <1>24. PICK entries : entries = FindingsTemplateText(verdict) /\ both(entries)
    BY <1>6, <1>23
  <1>25. ShownOf(entries, "accepted") = accepted
    <2>1. Shows(entries, "accepted", BlockOf("accepted", accepted), f)
      BY <1>24 DEF both, acc
    <2>2. entries \in Seq(T)
      BY <1>24 DEF both
    <2> QED
      BY <2>1, <2>2, ShownIsTheBlock
  <1>26. ShownOf(entries, "refused") = rejected
    <2>1. Shows(entries, "refused", BlockOf("refused", rejected), g)
      BY <1>24 DEF both, rej
    <2>2. entries \in Seq(T)
      BY <1>24 DEF both
    <2> QED
      BY <2>1, <2>2, ShownIsTheBlock
  <1> QED
    BY <1>24, <1>25, <1>26

Places(s) == [i \in DOMAIN s |-> <<s[i].stream, s[i].position>>]

\* The verdicts on some of the arrivals, in their order.
VerdictsOn(entries, kept) ==
  /\ DOMAIN entries = DOMAIN kept
  /\ \A a \in DOMAIN kept : /\ entries[a].arrived_on = kept[a].stream
                            /\ entries[a].position = kept[a].position

LEMMA PlacesAreKept ==
  ASSUME NEW T, NEW s \in Seq(T), NEW chosen \in SUBSET DOMAIN s,
         NEW entries, VerdictsOn(entries, Kept(s, chosen)), InArrivalOrder(Places(s))
  PROVE  /\ InArrivalOrder(ArrivalsOf(entries, "arrived_on"))
         /\ ToSet(ArrivalsOf(entries, "arrived_on")) = {Places(s)[i] : i \in chosen}
  <1> DEFINE kept == Kept(s, chosen)
             came == Places(s)
             places == ArrivalsOf(entries, "arrived_on")
  <1>1. PICK p : Numbering(p, kept, s, chosen, Len(s))
    BY KeptInOrder
  <1>2. PICK n \in Nat : n = Len(s) /\ DOMAIN s = 1..n
    OBVIOUS
  <1>3. kept \in Seq(T)
    BY KeptHolds
  <1> HIDE DEF kept
  <1>4. PICK m \in Nat : m = Len(kept) /\ DOMAIN kept = 1..m
    BY <1>3
  <1>5. /\ \A a \in 1..m : p[a] \in chosen /\ p[a] \in 1..n /\ kept[a] = s[p[a]]
        /\ \A a, b \in 1..m : a < b => p[a] < p[b]
        /\ \A i \in chosen : \E a \in 1..m : p[a] = i
    <2>1. chosen \cap 1..n = chosen
      BY <1>2
    <2> QED
      BY <1>1, <1>2, <1>4, <2>1 DEF Numbering
  <1>6. DOMAIN places = 1..m /\ \A a \in 1..m : places[a] = came[p[a]]
    <2>1. DOMAIN entries = 1..m
      BY <1>4 DEF VerdictsOn, kept
    <2>2. \A a \in 1..m : /\ entries[a].arrived_on = s[p[a]].stream
                          /\ entries[a].position = s[p[a]].position
      BY <1>4, <1>5 DEF VerdictsOn, kept
    <2>3. \A i \in 1..n : came[i] = <<s[i].stream, s[i].position>>
      BY <1>2 DEF Places
    <2>4. \A a \in 1..m : places[a] = <<entries[a].arrived_on, entries[a].position>>
      BY <2>1 DEF ArrivalsOf
    <2> QED
      BY <1>5, <2>1, <2>2, <2>3, <2>4 DEF ArrivalsOf
  <1>7. DOMAIN came = 1..n
    BY <1>2 DEF Places
  <1> HIDE DEF places, came
  <1>8. InArrivalOrder(places)
    <2> SUFFICES ASSUME NEW a \in 1..m, NEW b \in 1..m, a < b
                 PROVE  \/ places[a][1] = GateStream /\ places[b][1] = EngineStream
                        \/ places[a][1] = places[b][1] /\ places[a][2] < places[b][2]
      BY <1>6 DEF InArrivalOrder
    <2>1. p[a] \in 1..n /\ p[b] \in 1..n /\ p[a] < p[b]
      BY <1>5
    <2>2. PICK i \in 1..n, j \in 1..n : i = p[a] /\ j = p[b] /\ i < j
      BY <2>1
    <2>3. \/ came[i][1] = GateStream /\ came[j][1] = EngineStream
          \/ came[i][1] = came[j][1] /\ came[i][2] < came[j][2]
      BY <1>7, <2>2 DEF InArrivalOrder, came
    <2> QED
      BY <1>6, <2>2, <2>3
  <1>9. ToSet(places) = {came[i] : i \in chosen}
    <2>1. \A a \in 1..m : places[a] \in {came[i] : i \in chosen}
      BY <1>5, <1>6
    <2>2. \A i \in chosen : came[i] \in {places[a] : a \in 1..m}
      <3> TAKE i \in chosen
      <3>1. PICK a \in 1..m : p[a] = i
        BY <1>5
      <3> QED
        BY <1>6, <3>1
    <2>3. ToSet(places) = {places[a] : a \in 1..m}
      BY <1>6 DEF ToSet
    <2> QED
      BY <2>1, <2>2, <2>3
  <1> QED
    BY <1>8, <1>9 DEF places, came

\* Sequences by their places.
LEMMA SequenceOf ==
  ASSUME NEW T, NEW n \in Nat, NEW f, f = [i \in 1..n |-> f[i]],
         \A i \in 1..n : f[i] \in T
  PROVE  f \in Seq(T) /\ Len(f) = n /\ DOMAIN f = 1..n
  <1>1. f \in [1..n -> T]
    OBVIOUS
  <1>2. f \in Seq(T)
    BY <1>1
  <1> QED
    BY <1>1, <1>2

Joined(u, s, t, n, m) ==
  /\ Len(u) = n + m /\ DOMAIN u = 1..(n + m)
  /\ \A i \in 1..n : u[i] = s[i]
  /\ \A i \in 1..m : u[n + i] = t[i]

LEMMA JoinedPlaces ==
  ASSUME NEW T, NEW s \in Seq(T), NEW t \in Seq(T), NEW n \in Nat, NEW m \in Nat,
         n = Len(s), m = Len(t)
  PROVE  Joined(s \o t, s, t, n, m)
  BY DEF Joined

\* The two streams one after the other.
LEMMA ArrivalsInOrder ==
  ASSUME NEW C, NEW gateFindings \in Seq(C), NEW E, NEW engineFindings \in Seq(E)
  PROVE  LET came == Arrivals(gateFindings, engineFindings)
             n == Len(gateFindings)
             m == Len(engineFindings)
         IN /\ came \in Seq(ToSet(came))
            /\ InArrivalOrder(Places(came))
            /\ \A i, j \in DOMAIN came : Places(came)[i] = Places(came)[j] => i = j
            /\ {Places(came)[i] : i \in DOMAIN came}
                 = ({GateStream} \X (0..(n - 1))) \cup ({EngineStream} \X (0..(m - 1)))
  <1>1. PICK n \in Nat, m \in Nat : n = Len(gateFindings) /\ m = Len(engineFindings)
    OBVIOUS
  <1> DEFINE g == [i \in DOMAIN gateFindings |->
                     [candidate |-> gateFindings[i], stream |-> GateStream,
                      position |-> i - 1]]
             e == [i \in DOMAIN engineFindings |->
                     [candidate |-> engineFindings[i], stream |-> EngineStream,
                      position |-> i - 1]]
             T == ToSet(g) \cup ToSet(e)
             came == Arrivals(gateFindings, engineFindings)
  <1>2. /\ DOMAIN g = 1..n /\ DOMAIN e = 1..m
        /\ \A i \in 1..n : g[i].stream = GateStream /\ g[i].position = i - 1
        /\ \A i \in 1..m : e[i].stream = EngineStream /\ e[i].position = i - 1
    BY <1>1
  <1>3. g \in Seq(T) /\ e \in Seq(T) /\ Len(g) = n /\ Len(e) = m
    <2>1. /\ \A i \in 1..n : g[i] \in T
          /\ \A i \in 1..m : e[i] \in T
      BY <1>2 DEF ToSet
    <2>2. /\ g = [i \in 1..n |-> g[i]]
          /\ e = [i \in 1..m |-> e[i]]
      BY <1>2
    <2> HIDE DEF g, e, T
    <2> QED
      BY <2>1, <2>2, SequenceOf
  <1>4. came = g \o e
    BY DEF Arrivals
  <1> HIDE DEF g, e, T, came
  <1>5. /\ Len(came) = n + m /\ DOMAIN came = 1..(n + m)
        /\ \A i \in 1..n : came[i] = g[i]
        /\ \A i \in 1..m : came[n + i] = e[i]
    <2>1. n = Len(g) /\ m = Len(e)
      BY <1>3
    <2>2. Joined(came, g, e, n, m)
      BY <1>3, <1>4, <2>1, JoinedPlaces
    <2> QED
      BY <2>2 DEF Joined
  <1>6. came \in Seq(ToSet(came))
    <2>1. came = [i \in 1..(n + m) |-> came[i]]
      <3>1. came \in Seq(T)
        BY <1>3, <1>4
      <3> QED
        BY <1>5, <3>1
    <2>2. \A i \in 1..(n + m) : came[i] \in ToSet(came)
      BY <1>5 DEF ToSet
    <2>3. PICK all \in Nat : all = n + m
      OBVIOUS
    <2>4. came = [i \in 1..all |-> came[i]] /\ \A i \in 1..all : came[i] \in ToSet(came)
      BY <2>1, <2>2, <2>3
    <2> QED
      BY <2>4, SequenceOf
  <1> DEFINE places == Places(came)
  <1>7. DOMAIN places = 1..(n + m)
        /\ \A i \in 1..(n + m) : places[i] = <<came[i].stream, came[i].position>>
    BY <1>5 DEF Places
  <1> HIDE DEF places
  <1>8. /\ \A i \in 1..n : i \in 1..(n + m) /\ places[i] = <<GateStream, i - 1>>
        /\ \A i \in 1..m : n + i \in 1..(n + m) /\ places[n + i] = <<EngineStream, i - 1>>
    <2>1. ASSUME NEW i \in 1..n
          PROVE  i \in 1..(n + m) /\ places[i] = <<GateStream, i - 1>>
      <3>1. i \in 1..(n + m)
        OBVIOUS
      <3>2. came[i].stream = GateStream /\ came[i].position = i - 1
        BY <1>2, <1>5
      <3> QED
        BY <1>7, <3>1, <3>2
    <2>2. ASSUME NEW i \in 1..m
          PROVE  n + i \in 1..(n + m) /\ places[n + i] = <<EngineStream, i - 1>>
      <3>1. n + i \in 1..(n + m)
        OBVIOUS
      <3>2. came[n + i] = e[i]
        BY <1>5
      <3>3. came[n + i].stream = EngineStream /\ came[n + i].position = i - 1
        BY <1>2, <3>2
      <3> QED
        BY <1>7, <3>1, <3>3
    <2> QED
      BY <2>1, <2>2
  <1>9. \A i \in 1..(n + m) : i \in 1..n \/ \E k \in 1..m : i = n + k
    <2> TAKE i \in 1..(n + m)
    <2>1. CASE i <= n
      BY <2>1
    <2>2. CASE i > n
      <3>1. i - n \in 1..m /\ i = n + (i - n)
        BY <2>2
      <3> QED
        BY <3>1
    <2> QED
      BY <2>1, <2>2
  <1>10. ASSUME NEW i \in 1..(n + m), NEW j \in 1..(n + m), i < j
         PROVE  /\ \/ places[i][1] = GateStream /\ places[j][1] = EngineStream
                   \/ places[i][1] = places[j][1] /\ places[i][2] < places[j][2]
                /\ places[i] # places[j]
    <2>1. CASE i \in 1..n /\ j \in 1..n
      BY <1>8, <1>10, <2>1
    <2>2. ASSUME NEW k \in 1..m, j = n + k, i \in 1..n
          PROVE  places[i][1] = GateStream /\ places[j][1] = EngineStream
                 /\ places[i] # places[j]
      <3>1. places[i] = <<GateStream, i - 1>> /\ places[j] = <<EngineStream, k - 1>>
        BY <1>8, <2>2
      <3>2. GateStream # EngineStream
        BY DEF GateStream, EngineStream
      <3> QED
        BY <3>1, <3>2
    <2>3. ASSUME NEW k \in 1..m, NEW l \in 1..m, i = n + l, j = n + k
          PROVE  places[i][1] = places[j][1] /\ places[i][2] < places[j][2]
                 /\ places[i] # places[j]
      <3>1. places[i] = <<EngineStream, l - 1>> /\ places[j] = <<EngineStream, k - 1>>
        BY <1>8, <2>3
      <3>2. l - 1 < k - 1
        BY <1>10, <2>3
      <3> QED
        BY <3>1, <3>2
    <2>4. CASE j \in 1..n
      <3>1. i \in 1..n
        BY <1>10, <2>4
      <3> QED
        BY <2>1, <2>4, <3>1
    <2> QED
      BY <1>9, <2>2, <2>3, <2>4
  <1>11. InArrivalOrder(places)
    BY <1>7, <1>10 DEF InArrivalOrder
  <1>12. \A i, j \in 1..(n + m) : places[i] = places[j] => i = j
    <2> TAKE i, j \in 1..(n + m)
    <2>1. i = j \/ i < j \/ j < i
      OBVIOUS
    <2> QED
      BY <1>10, <2>1
  <1>13. {places[i] : i \in 1..(n + m)}
           = ({GateStream} \X (0..(n - 1))) \cup ({EngineStream} \X (0..(m - 1)))
    <2>1. \A i \in 1..(n + m) :
             places[i] \in ({GateStream} \X (0..(n - 1))) \cup ({EngineStream} \X (0..(m - 1)))
      <3> TAKE i \in 1..(n + m)
      <3>1. CASE i \in 1..n
        <4>1. places[i] = <<GateStream, i - 1>> /\ i - 1 \in 0..(n - 1)
          BY <1>8, <3>1
        <4> QED
          BY <4>1
      <3>2. ASSUME NEW k \in 1..m, i = n + k
            PROVE  places[i] \in {EngineStream} \X (0..(m - 1))
        <4>1. places[n + k] = <<EngineStream, k - 1>>
          BY <1>8
        <4>2. k - 1 \in 0..(m - 1)
          OBVIOUS
        <4> QED
          BY <3>2, <4>1, <4>2
      <3> QED
        BY <1>9, <3>1, <3>2
    <2>2. \A k \in 0..(n - 1) : <<GateStream, k>> \in {places[i] : i \in 1..(n + m)}
      <3> TAKE k \in 0..(n - 1)
      <3>1. k + 1 \in 1..n /\ (k + 1) - 1 = k
        OBVIOUS
      <3>2. k + 1 \in 1..(n + m) /\ places[k + 1] = <<GateStream, k>>
        BY <1>8, <3>1
      <3> QED
        BY <3>2
    <2>3. \A k \in 0..(m - 1) : <<EngineStream, k>> \in {places[i] : i \in 1..(n + m)}
      <3> TAKE k \in 0..(m - 1)
      <3>1. k + 1 \in 1..m /\ (k + 1) - 1 = k
        OBVIOUS
      <3>2. n + (k + 1) \in 1..(n + m) /\ places[n + (k + 1)] = <<EngineStream, k>>
        BY <1>8, <3>1
      <3> QED
        BY <3>2
    <2>4. /\ \A x \in {GateStream} \X (0..(n - 1)) : \E k \in 0..(n - 1) : x = <<GateStream, k>>
          /\ \A x \in {EngineStream} \X (0..(m - 1)) :
               \E k \in 0..(m - 1) : x = <<EngineStream, k>>
      OBVIOUS
    <2> DEFINE G == {GateStream} \X (0..(n - 1))
               H == {EngineStream} \X (0..(m - 1))
               P == {places[i] : i \in 1..(n + m)}
    <2>5. G \subseteq P /\ H \subseteq P
      BY <2>2, <2>3, <2>4
    <2>6. \A x \in P : x \in G \cup H
      BY <2>1
    <2> HIDE DEF G, H, P
    <2>7. P = G \cup H
      BY <2>5, <2>6
    <2> QED
      BY <2>7 DEF G, H, P
  <1> QED
    BY <1>1, <1>5, <1>6, <1>11, <1>12, <1>13 DEF places, came

\* What a verdict says of where its finding came from.
LEMMA VerdictsKeepThePlace ==
  ASSUME NEW candidate, NEW stream, NEW position, NEW reason
  PROVE  /\ AcceptedFinding(candidate, stream, position).arrived_on = stream
         /\ AcceptedFinding(candidate, stream, position).position = position
         /\ RejectedFinding(candidate, stream, position, reason).arrived_on = stream
         /\ RejectedFinding(candidate, stream, position, reason).position = position
  BY DEF AcceptedFinding, RejectedFinding

\* The n findings of the one stream and the m of the other, decided.
Decided(verdict, n, m) ==
  LET kept == ArrivalsOf(verdict.accepted, "arrived_on")
      refused == ArrivalsOf(verdict.rejected, "arrived_on")
  IN /\ verdict.accepted \in Seq(ToSet(verdict.accepted))
     /\ verdict.rejected \in Seq(ToSet(verdict.rejected))
     /\ ToSet(kept) \cup ToSet(refused) =
          ({GateStream} \X (0..(n - 1))) \cup ({EngineStream} \X (0..(m - 1)))
     /\ ToSet(kept) \cap ToSet(refused) = {}
     /\ InArrivalOrder(kept) /\ InArrivalOrder(refused)
     /\ verdict.id_collisions = IdCollisions(verdict.accepted)
     /\ verdict.unidentified = Unidentified(verdict.accepted)

\* The merge sends every arrival to one of its two lists, in order.
LEMMA MergeDecides ==
  ASSUME NEW C, NEW gateFindings \in Seq(C), NEW E, NEW engineFindings \in Seq(E)
  PROVE  Decided(MergeFindings(gateFindings, engineFindings),
                 Len(gateFindings), Len(engineFindings))
  <1> DEFINE came == Arrivals(gateFindings, engineFindings)
             verdict == MergeFindings(gateFindings, engineFindings)
             passed == {i \in DOMAIN came : Reason(came[i].candidate, came[i].stream) = None}
             kept == Kept(came, passed)
             refused == Kept(came, DOMAIN came \ passed)
             accepted == [i \in DOMAIN kept |->
               AcceptedFinding(kept[i].candidate, kept[i].stream, kept[i].position)]
             rejected == [i \in DOMAIN refused |->
               RejectedFinding(refused[i].candidate, refused[i].stream, refused[i].position,
                               Reason(refused[i].candidate, refused[i].stream))]
  <1>1. /\ verdict.accepted = accepted /\ verdict.rejected = rejected
        /\ verdict.id_collisions = IdCollisions(accepted)
        /\ verdict.unidentified = Unidentified(accepted)
    BY DEF MergeFindings
  <1>2. /\ came \in Seq(ToSet(came))
        /\ InArrivalOrder(Places(came))
        /\ \A i, j \in DOMAIN came : Places(came)[i] = Places(came)[j] => i = j
        /\ {Places(came)[i] : i \in DOMAIN came}
             = ({GateStream} \X (0..(Len(gateFindings) - 1)))
                 \cup ({EngineStream} \X (0..(Len(engineFindings) - 1)))
    BY ArrivalsInOrder
  <1>3. passed \in SUBSET DOMAIN came /\ DOMAIN came \ passed \in SUBSET DOMAIN came
    OBVIOUS
  <1> HIDE DEF came, verdict, passed
  <1>4. VerdictsOn(accepted, kept) /\ VerdictsOn(rejected, refused)
    <2> HIDE DEF kept, refused
    <2> QED
      BY VerdictsKeepThePlace DEF VerdictsOn
  <1>5. kept \in Seq(ToSet(came)) /\ refused \in Seq(ToSet(came))
    BY <1>2, KeptHolds
  <1>6. accepted \in Seq(ToSet(accepted)) /\ rejected \in Seq(ToSet(rejected))
    <2> HIDE DEF kept, refused
    <2>1. PICK k \in Nat, r \in Nat : DOMAIN kept = 1..k /\ DOMAIN refused = 1..r
      BY <1>5
    <2>2. DOMAIN accepted = 1..k /\ DOMAIN rejected = 1..r
      BY <2>1
    <2>3. /\ accepted = [i \in 1..k |-> accepted[i]]
          /\ rejected = [i \in 1..r |-> rejected[i]]
      BY <2>2
    <2> HIDE DEF accepted, rejected
    <2>4. /\ \A i \in 1..k : accepted[i] \in ToSet(accepted)
          /\ \A i \in 1..r : rejected[i] \in ToSet(rejected)
      BY <2>2 DEF ToSet
    <2> QED
      BY <2>3, <2>4, SequenceOf
  <1> HIDE DEF accepted, rejected
  <1>7. /\ InArrivalOrder(ArrivalsOf(accepted, "arrived_on"))
        /\ ToSet(ArrivalsOf(accepted, "arrived_on")) = {Places(came)[i] : i \in passed}
    BY <1>2, <1>3, <1>4, PlacesAreKept
  <1>8. /\ InArrivalOrder(ArrivalsOf(rejected, "arrived_on"))
        /\ ToSet(ArrivalsOf(rejected, "arrived_on"))
             = {Places(came)[i] : i \in DOMAIN came \ passed}
    BY <1>2, <1>3, <1>4, PlacesAreKept
  <1> DEFINE at == Places(came)
             K == {at[i] : i \in passed}
             R == {at[i] : i \in DOMAIN came \ passed}
  <1>9. K \cup R = {at[i] : i \in DOMAIN came}
    BY <1>3
  <1>10. K \cap R = {}
    BY <1>2, <1>3
  <1> QED
    BY <1>1, <1>2, <1>6, <1>7, <1>8, <1>9, <1>10 DEF verdict, Decided

\* What is there of a receipt is the merge of the four gates and the engine's.
LEMMA ReceiptIsMerged ==
  ASSUME PipelineInv, receipt # None
  PROVE  Decided(receipt, 4, Len(request.engine))
  <1> DEFINE candidates == [i \in DOMAIN gates |-> AsCandidate(gates[i])]
  <1>1. phase \in Judged /\ receipt = MergeFindings(candidates, request.engine)
    BY DEF PipelineInv, PhasesAgree, ResultsAgree, Judged
  <1>2. DOMAIN gates = 1..4
    BY <1>1, JudgedHoldsThePieces
  <1>3. request.engine \in Seq(ToSet(request.engine))
    BY RequestsAssumption DEF PipelineInv, ResultsAgree, RequestOK
  <1>4. candidates \in Seq(ToSet(candidates)) /\ Len(candidates) = 4
    <2>1. candidates = [i \in 1..4 |-> candidates[i]] /\ DOMAIN candidates = 1..4
      BY <1>2
    <2> HIDE DEF candidates
    <2>2. \A i \in 1..4 : candidates[i] \in ToSet(candidates)
      BY <2>1 DEF ToSet
    <2> QED
      BY <2>1, <2>2, SequenceOf
  <1> HIDE DEF candidates
  <1>5. Decided(receipt, Len(candidates), Len(request.engine))
    BY <1>1, <1>3, <1>4, MergeDecides
  <1> QED
    BY <1>4, <1>5

LEMMA CandidatesAreDecided ==
  ASSUME PipelineInv
  PROVE  EveryCandidateIsDecidedOnce
  <1> SUFFICES ASSUME receipt # None PROVE EveryCandidateIsDecidedOnce
    BY DEF EveryCandidateIsDecidedOnce
  <1>1. /\ receipt.accepted \in Seq(ToSet(receipt.accepted))
        /\ receipt.rejected \in Seq(ToSet(receipt.rejected))
    BY ReceiptIsMerged DEF Decided
  <1>2. text # None => text = FindingsTemplateText(receipt)
    BY DEF PipelineInv, PhasesAgree, ResultsAgree
  <1>3. text # None => /\ ShownOf(text, "accepted") = receipt.accepted
                       /\ ShownOf(text, "refused") = receipt.rejected
    BY <1>1, <1>2, TextShowsTheVerdicts
  <1> QED
    BY <1>3, ReceiptIsMerged DEF EveryCandidateIsDecidedOnce, Decided, ShownOf

\* Every finding that came on a stream is accepted or refused, once and in the
\* order it came, and the text shows each under the verdict it was given
\* (findings/merge.py, render.py).
THEOREM CandidatesAreDecidedOnce == Spec => []EveryCandidateIsDecidedOnce
  <1>1. PipelineInv => EveryCandidateIsDecidedOnce
    BY CandidatesAreDecided
  <1> QED
    BY <1>1, ResultsAreTheirFunctions, PTL

----------------------------------------------------------------------------
(* The findings' ids: who shares one.                                      *)

Positions(accepted) == [j \in DOMAIN accepted |-> j - 1]

Alike(accepted, i) ==
  {j \in DOMAIN accepted : accepted[j].finding_id = accepted[i].finding_id}

GroupOf(accepted, i) == Kept(Positions(accepted), Alike(accepted, i))

\* The first ones of an id that says something and is there more than once.
Heads(accepted) ==
  {i \in DOMAIN accepted : /\ accepted[i].finding_id \notin Blank
                           /\ Len(GroupOf(accepted, i)) > 1
                           /\ GroupOf(accepted, i)[1] = i - 1}

HeadsInOrder(accepted) == Kept([i \in DOMAIN accepted |-> i], Heads(accepted))

\* The positions at some places: which they are, and that the first comes first.
LEMMA PositionsKept ==
  ASSUME NEW A, NEW accepted \in Seq(A), NEW n \in Nat, n = Len(accepted),
         NEW chosen \in SUBSET (1..n)
  PROVE  LET v == Kept(Positions(accepted), chosen)
         IN /\ v \in Seq(Int)
            /\ ToSet(v) = {j - 1 : j \in chosen}
            /\ chosen # {} => /\ Len(v) >= 1
                              /\ v[1] + 1 \in chosen
                              /\ \A j \in chosen : v[1] <= j - 1
            /\ \A i, j \in chosen : i < j => Len(v) > 1
  <1> DEFINE s == Positions(accepted)
             v == Kept(s, chosen)
  <1>1. DOMAIN accepted = 1..n
    OBVIOUS
  <1>2. s \in Seq(Int) /\ Len(s) = n /\ DOMAIN s = 1..n /\ \A j \in 1..n : s[j] = j - 1
    <2>1. DOMAIN s = 1..n /\ \A j \in 1..n : s[j] = j - 1
      BY <1>1 DEF Positions
    <2>2. s = [j \in 1..n |-> s[j]]
      BY <1>1 DEF Positions
    <2> HIDE DEF s
    <2>3. \A j \in 1..n : s[j] \in Int
      BY <2>1
    <2>4. s \in Seq(Int) /\ Len(s) = n
      BY <2>2, <2>3, SequenceOf
    <2> QED
      BY <2>1, <2>4
  <1> HIDE DEF s
  <1>3. v \in Seq(Int) /\ ToSet(v) = {s[j] : j \in chosen}
    <2>1. chosen \cap DOMAIN s = chosen
      BY <1>2
    <2> QED
      BY <1>2, <2>1, KeptHolds
  <1>4. ToSet(v) = {j - 1 : j \in chosen}
    <2>1. {s[j] : j \in chosen} = {j - 1 : j \in chosen}
      BY <1>2
    <2> QED
      BY <1>3, <2>1
  <1>5. PICK p : Numbering(p, v, s, chosen, n)
    BY <1>2, KeptInOrder
  <1> HIDE DEF v
  <1>6. PICK m \in Nat : m = Len(v)
    BY <1>3
  <1>7. /\ \A a \in 1..m : p[a] \in chosen /\ p[a] \in 1..n /\ v[a] = s[p[a]]
        /\ \A a, b \in 1..m : a < b => p[a] < p[b]
        /\ \A i \in chosen : \E a \in 1..m : p[a] = i
    <2>1. chosen \cap 1..n = chosen
      OBVIOUS
    <2> QED
      BY <1>5, <1>6, <2>1 DEF Numbering
  <1>8. ASSUME chosen # {}
        PROVE  m >= 1 /\ v[1] + 1 \in chosen /\ \A j \in chosen : v[1] <= j - 1
    <2>1. 1 \in 1..m
      <3>1. PICK i \in chosen : TRUE
        BY <1>8
      <3>2. PICK a \in 1..m : p[a] = i
        BY <1>7
      <3> QED
        BY <3>2
    <2>2. PICK first \in 1..n : first = p[1] /\ first \in chosen
      BY <1>7, <2>1
    <2>3. v[1] = first - 1
      BY <1>2, <1>7, <2>1, <2>2
    <2>4. \A j \in chosen : first <= j
      <3> TAKE j \in chosen
      <3>1. PICK a \in 1..m : p[a] = j
        BY <1>7
      <3>2. a = 1 \/ 1 < a
        OBVIOUS
      <3>3. 1 < a => p[1] < p[a]
        BY <1>7, <2>1
      <3> QED
        BY <2>2, <3>1, <3>2, <3>3
    <2>5. (first - 1) + 1 = first
      OBVIOUS
    <2>6. \A j \in chosen : v[1] <= j - 1
      <3> TAKE j \in chosen
      <3>1. j \in 1..n /\ first <= j
        BY <2>4
      <3> QED
        BY <2>3, <3>1
    <2> QED
      BY <2>1, <2>2, <2>3, <2>5, <2>6
  <1>9. ASSUME NEW i \in chosen, NEW j \in chosen, i < j PROVE m > 1
    <2>1. PICK a \in 1..m, b \in 1..m : p[a] = i /\ p[b] = j
      BY <1>7
    <2>2. a # b
      BY <1>9, <2>1
    <2> QED
      BY <2>2
  <1> QED
    BY <1>3, <1>4, <1>6, <1>8, <1>9 DEF v, s

LEMMA CollisionsByHead ==
  ASSUME NEW A, NEW accepted \in Seq(A)
  PROVE  LET heads == HeadsInOrder(accepted)
         IN /\ DOMAIN IdCollisions(accepted) = DOMAIN heads
            /\ \A k \in DOMAIN heads :
                 /\ heads[k] \in Heads(accepted)
                 /\ IdCollisions(accepted)[k] = GroupOf(accepted, heads[k])
            /\ \A k, l \in DOMAIN heads : k < l => heads[k] < heads[l]
            /\ \A i \in Heads(accepted) : \E k \in DOMAIN heads : heads[k] = i
  <1> DEFINE heads == HeadsInOrder(accepted)
             s == [i \in DOMAIN accepted |-> i]
             groups == [i \in DOMAIN accepted |-> GroupOf(accepted, i)]
             H == Heads(accepted)
  <1>1. PICK n \in Nat : n = Len(accepted) /\ DOMAIN accepted = 1..n
    OBVIOUS
  <1>2. s \in Seq(Int) /\ Len(s) = n /\ \A i \in 1..n : s[i] = i
    <2>1. s = [i \in 1..n |-> s[i]] /\ \A i \in 1..n : s[i] = i
      BY <1>1
    <2> HIDE DEF s
    <2>2. \A i \in 1..n : s[i] \in Int
      BY <2>1
    <2> QED
      BY <2>1, <2>2, SequenceOf
  <1>3. H \subseteq 1..n
    BY <1>1 DEF Heads
  <1>4. IdCollisions(accepted) = [k \in DOMAIN heads |-> groups[heads[k]]]
    <2>1. H = {i \in DOMAIN accepted : /\ accepted[i].finding_id \notin Blank
                                       /\ Len(groups[i]) > 1
                                       /\ groups[i][1] = i - 1}
      BY DEF Heads
    <2>2. IdCollisions(accepted) =
            LET firsts == Kept(s, {i \in DOMAIN accepted :
                                     /\ accepted[i].finding_id \notin Blank
                                     /\ Len(groups[i]) > 1
                                     /\ groups[i][1] = i - 1})
            IN [k \in DOMAIN firsts |-> groups[firsts[k]]]
      BY DEF IdCollisions, GroupOf, Positions, Alike
    <2>3. heads = Kept(s, H)
      BY DEF HeadsInOrder
    <2> HIDE DEF H, groups, s, heads
    <2> QED
      BY <2>1, <2>2, <2>3
  <1>5. heads \in Seq(Int)
    <2>1. heads = Kept(s, H)
      BY DEF HeadsInOrder
    <2> HIDE DEF H, s, heads
    <2> QED
      BY <1>2, <2>1, KeptHolds
  <1>6. PICK p : Numbering(p, heads, s, H, n)
    <2>1. heads = Kept(s, H)
      BY DEF HeadsInOrder
    <2> HIDE DEF H, s, heads
    <2> QED
      BY <1>2, <2>1, KeptInOrder
  <1> HIDE DEF heads, s, H
  <1>7. PICK m \in Nat : m = Len(heads) /\ DOMAIN heads = 1..m
    BY <1>5
  <1>8. /\ \A a \in 1..m : p[a] \in H /\ p[a] \in 1..n /\ heads[a] = s[p[a]]
        /\ \A a, b \in 1..m : a < b => p[a] < p[b]
        /\ \A i \in H : \E a \in 1..m : p[a] = i
    <2>1. H \cap 1..n = H
      BY <1>3
    <2> QED
      BY <1>6, <1>7, <2>1 DEF Numbering
  <1>9. \A a \in 1..m : heads[a] = p[a]
    BY <1>2, <1>8
  <1>10. \A k \in 1..m : /\ heads[k] \in H
                         /\ IdCollisions(accepted)[k] = GroupOf(accepted, heads[k])
    <2> TAKE k \in 1..m
    <2>1. heads[k] \in H /\ heads[k] \in DOMAIN accepted
      BY <1>1, <1>8, <1>9
    <2>2. IdCollisions(accepted)[k] = groups[heads[k]]
      BY <1>4, <1>7
    <2> QED
      BY <2>1, <2>2
  <1>11. \A k, l \in 1..m : k < l => heads[k] < heads[l]
    BY <1>8, <1>9
  <1>12. \A i \in H : \E k \in 1..m : heads[k] = i
    BY <1>8, <1>9
  <1>13. DOMAIN IdCollisions(accepted) = 1..m
    BY <1>4, <1>7
  <1> QED
    BY <1>7, <1>10, <1>11, <1>12, <1>13 DEF heads, H

IdsExact(accepted, groups, unidentified) ==
  LET idAt(index) == accepted[index + 1].finding_id
  IN /\ \A i, j \in 0..(Len(accepted) - 1) : i < j =>
          ((\E g \in DOMAIN groups : {i, j} \subseteq ToSet(groups[g]))
             <=> idAt(i) = idAt(j) /\ idAt(i) \notin Blank)
     /\ \A g, h \in DOMAIN groups :
          g < h => /\ ToSet(groups[g]) \cap ToSet(groups[h]) = {}
                   /\ groups[g][1] < groups[h][1]
     /\ ToSet(unidentified) = {i \in 0..(Len(accepted) - 1) : idAt(i) \in Blank}

LEMMA IdsAreExact ==
  ASSUME NEW A, NEW accepted \in Seq(A)
  PROVE  IdsExact(accepted, IdCollisions(accepted), Unidentified(accepted))
  <1> DEFINE groups == IdCollisions(accepted)
             heads == HeadsInOrder(accepted)
             idAt(index) == accepted[index + 1].finding_id
             id(i) == accepted[i].finding_id
  <1>1. PICK n \in Nat : n = Len(accepted) /\ DOMAIN accepted = 1..n
    OBVIOUS
  <1>2. /\ DOMAIN groups = DOMAIN heads
        /\ \A k \in DOMAIN heads : /\ heads[k] \in Heads(accepted)
                                   /\ groups[k] = GroupOf(accepted, heads[k])
        /\ \A k, l \in DOMAIN heads : k < l => heads[k] < heads[l]
        /\ \A i \in Heads(accepted) : \E k \in DOMAIN heads : heads[k] = i
    BY CollisionsByHead
  <1>3. ASSUME NEW i \in 1..n
        PROVE  LET v == GroupOf(accepted, i)
               IN /\ ToSet(v) = {j - 1 : j \in Alike(accepted, i)}
                  /\ v[1] + 1 \in Alike(accepted, i)
                  /\ v[1] \in Int
                  /\ \A j \in Alike(accepted, i) : v[1] <= j - 1
                  /\ \A j, k \in Alike(accepted, i) : j < k => Len(v) > 1
    <2> DEFINE chosen == Alike(accepted, i)
               v == GroupOf(accepted, i)
    <2>1. chosen \in SUBSET (1..n) /\ chosen # {}
      BY <1>1 DEF Alike
    <2>2. v = Kept(Positions(accepted), chosen)
      BY DEF GroupOf
    <2> HIDE DEF chosen, v
    <2>3. /\ v \in Seq(Int)
          /\ ToSet(v) = {j - 1 : j \in chosen}
          /\ chosen # {} => /\ Len(v) >= 1
                            /\ v[1] + 1 \in chosen
                            /\ \A j \in chosen : v[1] <= j - 1
          /\ \A j, k \in chosen : j < k => Len(v) > 1
      BY <1>1, <2>1, <2>2, PositionsKept
    <2>4. v[1] \in Int
      BY <2>1, <2>3
    <2> QED
      BY <2>1, <2>3, <2>4 DEF chosen, v
  <1>4. \A i \in 1..n : \A j \in Alike(accepted, i) :
           j \in 1..n /\ Alike(accepted, i) = Alike(accepted, j)
    BY <1>1 DEF Alike
  <1>5. \A i \in Heads(accepted) : /\ i \in 1..n /\ id(i) \notin Blank
                                   /\ GroupOf(accepted, i)[1] = i - 1
    BY <1>1 DEF Heads
  <1>6. \A i, j \in 1..n : j \in Alike(accepted, i) <=> id(j) = id(i)
    BY <1>1 DEF Alike
  <1> HIDE DEF groups, heads, id
  <1>7. ASSUME NEW i \in 1..n, NEW j \in 1..n, i < j, id(i) = id(j), id(i) \notin Blank
        PROVE  \E g \in DOMAIN groups : {i - 1, j - 1} \subseteq ToSet(groups[g])
    <2> DEFINE v == GroupOf(accepted, i)
    <2>1. PICK first \in 1..n : first = v[1] + 1 /\ first \in Alike(accepted, i)
      BY <1>3, <1>4
    <2>2. GroupOf(accepted, first) = v
      BY <1>4, <2>1 DEF GroupOf
    <2>3. id(first) = id(i) /\ v[1] = first - 1
      <3>1. v[1] \in Int
        BY <1>3
      <3> QED
        BY <1>6, <2>1, <3>1
    <2>4. i \in Alike(accepted, i) /\ j \in Alike(accepted, i)
      BY <1>6, <1>7
    <2>5. Len(v) > 1
      BY <1>3, <1>7, <2>4
    <2>6. first \in Heads(accepted)
      BY <1>1, <1>7, <2>2, <2>3, <2>5 DEF Heads, id
    <2>7. PICK g \in DOMAIN heads : heads[g] = first
      BY <1>2, <2>6
    <2>8. groups[g] = v /\ g \in DOMAIN groups
      BY <1>2, <2>2, <2>7
    <2>9. ToSet(v) = {k - 1 : k \in Alike(accepted, i)}
      BY <1>3
    <2> QED
      BY <2>4, <2>8, <2>9
  <1>8. ASSUME NEW i \in 1..n, NEW j \in 1..n, NEW g \in DOMAIN groups,
               i - 1 \in ToSet(groups[g]), j - 1 \in ToSet(groups[g])
        PROVE  id(i) = id(j) /\ id(i) \notin Blank
    <2>1. PICK first \in 1..n : /\ first = heads[g]
                                /\ groups[g] = GroupOf(accepted, first)
                                /\ id(first) \notin Blank
      BY <1>2, <1>5
    <2>2. ToSet(groups[g]) = {k - 1 : k \in Alike(accepted, first)}
      BY <1>3, <2>1
    <2>3. i \in Alike(accepted, first) /\ j \in Alike(accepted, first)
      <3>1. \A x \in 1..n : x - 1 \in ToSet(groups[g]) => x \in Alike(accepted, first)
        <4> SUFFICES ASSUME NEW x \in 1..n, x - 1 \in ToSet(groups[g])
                     PROVE  x \in Alike(accepted, first)
          OBVIOUS
        <4>1. PICK k \in Alike(accepted, first) : k - 1 = x - 1
          BY <2>2
        <4>2. k \in 1..n
          BY <1>4
        <4> QED
          BY <4>1, <4>2
      <3> QED
        BY <1>8, <3>1
    <2> QED
      BY <1>6, <2>1, <2>3
  <1>9. ASSUME NEW g \in DOMAIN groups, NEW h \in DOMAIN groups, g < h
        PROVE  /\ ToSet(groups[g]) \cap ToSet(groups[h]) = {}
               /\ groups[g][1] < groups[h][1]
    <2>1. PICK a \in 1..n, b \in 1..n : /\ a < b
                                        /\ groups[g] = GroupOf(accepted, a)
                                        /\ groups[h] = GroupOf(accepted, b)
                                        /\ GroupOf(accepted, a)[1] = a - 1
                                        /\ GroupOf(accepted, b)[1] = b - 1
      BY <1>2, <1>5, <1>9
    <2>2. /\ ToSet(groups[g]) = {k - 1 : k \in Alike(accepted, a)}
          /\ ToSet(groups[h]) = {k - 1 : k \in Alike(accepted, b)}
      BY <1>3, <2>1
    <2>3. ASSUME NEW x \in ToSet(groups[g]) \cap ToSet(groups[h]) PROVE FALSE
      <3>1. PICK k \in Alike(accepted, a), l \in Alike(accepted, b) : k - 1 = x /\ l - 1 = x
        BY <2>2
      <3>2. k \in 1..n /\ l \in 1..n
        BY <1>4
      <3>3. k = l
        BY <3>1, <3>2
      <3>4. Alike(accepted, a) = Alike(accepted, b)
        BY <1>4, <3>1, <3>3
      <3>5. GroupOf(accepted, a) = GroupOf(accepted, b)
        BY <3>4 DEF GroupOf
      <3> QED
        BY <2>1, <3>5
    <2> QED
      BY <2>1, <2>3
  <1>10. ToSet(Unidentified(accepted)) = {i - 1 : i \in {j \in 1..n : id(j) \in Blank}}
    <2> DEFINE chosen == {j \in 1..n : id(j) \in Blank}
    <2>1. Unidentified(accepted) = Kept(Positions(accepted), chosen)
      BY <1>1 DEF Unidentified, Positions, id
    <2>2. chosen \in SUBSET (1..n)
      OBVIOUS
    <2> HIDE DEF chosen
    <2>3. ToSet(Kept(Positions(accepted), chosen)) = {j - 1 : j \in chosen}
      BY <1>1, <2>2, PositionsKept
    <2> QED
      BY <2>1, <2>3 DEF chosen
  <1>11. \A i \in 0..(n - 1) : i + 1 \in 1..n /\ (i + 1) - 1 = i /\ idAt(i) = id(i + 1)
    BY DEF id
  <1>12. ASSUME NEW i \in 0..(n - 1), NEW j \in 0..(n - 1), i < j
         PROVE  (\E g \in DOMAIN groups : {i, j} \subseteq ToSet(groups[g]))
                  <=> idAt(i) = idAt(j) /\ idAt(i) \notin Blank
    <2>1. PICK a \in 1..n, b \in 1..n : /\ a = i + 1 /\ b = j + 1 /\ a < b
                                        /\ a - 1 = i /\ b - 1 = j
                                        /\ idAt(i) = id(a) /\ idAt(j) = id(b)
      BY <1>11, <1>12
    <2> HIDE DEF idAt
    <2>2. idAt(i) = idAt(j) /\ idAt(i) \notin Blank
            => \E g \in DOMAIN groups : {i, j} \subseteq ToSet(groups[g])
      BY <1>7, <2>1
    <2>3. \A g \in DOMAIN groups :
             {i, j} \subseteq ToSet(groups[g]) => idAt(i) = idAt(j) /\ idAt(i) \notin Blank
      BY <1>8, <2>1
    <2> QED
      BY <2>2, <2>3
  <1>13. {i - 1 : i \in {j \in 1..n : id(j) \in Blank}}
           = {i \in 0..(n - 1) : idAt(i) \in Blank}
    <2>1. \A i \in 1..n : id(i) \in Blank => i - 1 \in 0..(n - 1) /\ idAt(i - 1) \in Blank
      <3> TAKE i \in 1..n
      <3>1. i - 1 \in 0..(n - 1) /\ (i - 1) + 1 = i
        OBVIOUS
      <3> QED
        BY <1>11, <3>1
    <2> HIDE DEF idAt
    <2>2. \A i \in 0..(n - 1) : idAt(i) \in Blank
             => i \in {k - 1 : k \in {j \in 1..n : id(j) \in Blank}}
      <3> SUFFICES ASSUME NEW i \in 0..(n - 1), idAt(i) \in Blank
                   PROVE  i \in {k - 1 : k \in {j \in 1..n : id(j) \in Blank}}
        OBVIOUS
      <3>1. PICK k \in 1..n : k = i + 1 /\ k - 1 = i /\ id(k) \in Blank
        BY <1>11
      <3> QED
        BY <3>1
    <2> QED
      BY <2>1, <2>2
  <1> QED
    BY <1>1, <1>9, <1>10, <1>12, <1>13 DEF groups, IdsExact

\* Two accepted findings collide exactly when they share an id that says
\* something, and the blank ones are named instead (findings/merge.py).
THEOREM IdAnomaliesAreAsTheIds == Spec => []IdAnomaliesAreExact
  <1>1. PipelineInv => IdAnomaliesAreExact
    <2> SUFFICES ASSUME PipelineInv, receipt # None PROVE IdAnomaliesAreExact
      BY DEF IdAnomaliesAreExact
    <2>1. /\ receipt.accepted \in Seq(ToSet(receipt.accepted))
          /\ receipt.id_collisions = IdCollisions(receipt.accepted)
          /\ receipt.unidentified = Unidentified(receipt.accepted)
      BY ReceiptIsMerged DEF Decided
    <2>2. IdsExact(receipt.accepted, receipt.id_collisions, receipt.unidentified)
      BY <2>1, IdsAreExact
    <2> QED
      BY <2>2, Zenon DEF IdAnomaliesAreExact, IdsExact
  <1> QED
    BY <1>1, ResultsAreTheirFunctions, PTL

----------------------------------------------------------------------------
(* The formulas' scans: the resonance, and the walks outwards from it.     *)

\* One turn of the scan for the deepest sample, and of the walk down from it.
ScanOn(kind, v, s, i) ==
  IF kind = "deepest"
  THEN IF i = 1 THEN 1 ELSE IF Magnitude(s[i]) < Magnitude(s[v]) THEN i ELSE v
  ELSE IF i > 1 /\ AtMostMinus10dB(s[i - 1]) THEN v ELSE i

Scan(f, kind, s, n) == f = [i \in 1..n |-> ScanOn(kind, f[i - 1], s, i)]

LEMMA ScanRuns ==
  ASSUME NEW s, NEW kind, NEW n \in Nat \ {0}
  PROVE  \E f : Scan(f, kind, s, n)
  <1> DEFINE V == 1..n
             G == [x \in (1..n) \X V |-> ScanOn(kind, x[2], s, x[1])]
  <1>1. \A i \in 1..n, v \in V : ScanOn(kind, v, s, i) \in V
    BY DEF ScanOn
  <1>2. \A i \in 1..n, v \in V :
           G[<<i, v>>] = ScanOn(kind, v, s, i) /\ G[<<i, v>>] \in V
    BY <1>1
  <1>3. 1 \in V
    OBVIOUS
  <1> HIDE DEF G, V
  <1>4. PICK f : Turns(f, n, 1, G) /\ Along(f, n, 1, G, V)
    BY <1>2, <1>3, TurnsExist
  <1> DEFINE g == [i \in 1..n |-> f[i]]
  <1>5. \A i \in 1..n : f[i] = ScanOn(kind, f[i - 1], s, i)
    <2> TAKE i \in 1..n
    <2>1. i - 1 \in 0..n
      OBVIOUS
    <2> QED
      BY <1>2, <1>4, <2>1 DEF Along
  <1>6. \A i \in 1..n : ScanOn(kind, f[i - 1], s, i) = ScanOn(kind, g[i - 1], s, i)
    <2> TAKE i \in 1..n
    <2>1. CASE i = 1
      BY <2>1 DEF ScanOn
    <2>2. CASE i # 1
      <3>1. i - 1 \in 1..n
        BY <2>2
      <3> QED
        BY <3>1
    <2> QED
      BY <2>1, <2>2
  <1>7. g = [i \in 1..n |-> ScanOn(kind, g[i - 1], s, i)]
    <2>1. \A i \in 1..n : g[i] = ScanOn(kind, g[i - 1], s, i)
      BY <1>5, <1>6
    <2> HIDE DEF g
    <2>2. g = [i \in 1..n |-> g[i]]
      BY DEF g
    <2> QED
      BY <2>1, <2>2
  <1> QED
    BY <1>7 DEF Scan

\* r is the first of the deepest of the first k samples.
FirstDeepest(r, s, k) ==
  /\ r \in 1..k
  /\ \A i \in 1..k : Magnitude(s[r]) <= Magnitude(s[i])
  /\ \A i \in 1..(r - 1) : Magnitude(s[r]) < Magnitude(s[i])

LEMMA ResonanceIsFirstDeepest ==
  ASSUME NEW T, NEW s \in Seq(T), s # <<>>, \A i \in DOMAIN s : Magnitude(s[i]) \in Int
  PROVE  FirstDeepest(ResonanceIndex(s), s, Len(s))
  <1>1. PICK n \in Nat \ {0} : n = Len(s) /\ DOMAIN s = 1..n
    OBVIOUS
  <1> DEFINE f == CHOOSE g : Scan(g, "deepest", s, n)
  <1>2. ResonanceIndex(s) = f[n]
    BY <1>1 DEF ResonanceIndex, Scan, ScanOn
  <1>3. Scan(f, "deepest", s, n)
    BY ScanRuns
  <1> HIDE DEF f
  <1>4. \A i \in 1..n : f[i] = ScanOn("deepest", f[i - 1], s, i)
    BY <1>3 DEF Scan
  <1> DEFINE S == {k \in Nat : k + 1 <= n => FirstDeepest(f[k + 1], s, k + 1)}
  <1>5. 0 \in S
    <2>1. f[1] = 1
      BY <1>4 DEF ScanOn
    <2>2. Magnitude(s[1]) <= Magnitude(s[1])
      BY <1>1
    <2> QED
      BY <2>1, <2>2 DEF FirstDeepest
  <1>6. ASSUME NEW k \in Nat, k \in S PROVE k + 1 \in S
    <2> SUFFICES ASSUME (k + 1) + 1 <= n
                 PROVE  FirstDeepest(f[(k + 1) + 1], s, (k + 1) + 1)
      OBVIOUS
    <2>1. PICK m \in 1..n, o \in 1..n : m = k + 1 /\ o = m + 1 /\ o - 1 = m /\ o # 1
      OBVIOUS
    <2>2. FirstDeepest(f[m], s, m)
      BY <1>6, <2>1
    <2>3. PICK v \in 1..m : v = f[m]
      BY <2>2 DEF FirstDeepest
    <2>4. f[o] = IF Magnitude(s[o]) < Magnitude(s[v]) THEN o ELSE v
      BY <1>4, <2>1, <2>3 DEF ScanOn
    <2>5. /\ \A i \in 1..m : Magnitude(s[v]) <= Magnitude(s[i])
          /\ \A i \in 1..(v - 1) : Magnitude(s[v]) < Magnitude(s[i])
      BY <2>2, <2>3 DEF FirstDeepest
    <2>6. \A i \in 1..o : i \in 1..m \/ i = o
      BY <2>1
    <2>7. \A i \in 1..n : Magnitude(s[i]) \in Int
      BY <1>1
    <2>8. v \in 1..n /\ v \in 1..o /\ \A i \in 1..m : i \in 1..n
      BY <2>1
    <2>9. CASE Magnitude(s[o]) < Magnitude(s[v])
      <3>1. f[o] = o /\ o \in 1..o
        BY <2>1, <2>4, <2>9
      <3>2. \A i \in 1..m : Magnitude(s[o]) < Magnitude(s[i])
        BY <2>1, <2>5, <2>7, <2>8, <2>9
      <3>3. Magnitude(s[o]) <= Magnitude(s[o])
        BY <2>1, <2>7
      <3>4. \A i \in 1..o : Magnitude(s[o]) <= Magnitude(s[i])
        BY <2>1, <2>6, <2>7, <2>8, <3>2, <3>3
      <3>5. \A i \in 1..(o - 1) : Magnitude(s[o]) < Magnitude(s[i])
        BY <2>1, <3>2
      <3>6. FirstDeepest(o, s, o)
        BY <3>1, <3>4, <3>5 DEF FirstDeepest
      <3> QED
        BY <2>1, <3>1, <3>6
    <2>10. CASE ~ (Magnitude(s[o]) < Magnitude(s[v]))
      <3>1. f[o] = v /\ v \in 1..o
        BY <2>1, <2>4, <2>10
      <3>2. Magnitude(s[v]) <= Magnitude(s[o])
        BY <2>1, <2>7, <2>8, <2>10
      <3>3. \A i \in 1..o : Magnitude(s[v]) <= Magnitude(s[i])
        BY <2>5, <2>6, <3>2
      <3>4. FirstDeepest(v, s, o)
        BY <2>5, <3>1, <3>3 DEF FirstDeepest
      <3> QED
        BY <2>1, <3>1, <3>4
    <2> QED
      BY <2>9, <2>10
  <1> HIDE DEF S
  <1>7. Nat \subseteq S
    BY <1>5, <1>6, NatSetInduction
  <1>8. n - 1 \in S /\ (n - 1) + 1 = n
    BY <1>7
  <1> QED
    BY <1>1, <1>2, <1>8 DEF S

\* The samples from low up to just below high are deep, and the one below is not.
DeepFrom(low, s, high) ==
  /\ low \in 1..high
  /\ \A i \in low..(high - 1) : AtMostMinus10dB(s[i])
  /\ low = 1 \/ ~ AtMostMinus10dB(s[low - 1])

LEMMA LowIndexEndsTheRun ==
  ASSUME NEW T, NEW s \in Seq(T), NEW n \in Nat \ {0}, n = Len(s), NEW r \in 1..n
  PROVE  DeepFrom(LowIndex(s, r), s, r)
  <1>1. DOMAIN s = 1..n
    OBVIOUS
  <1> DEFINE f == CHOOSE g : Scan(g, "low", s, n)
  <1>2. LowIndex(s, r) = f[r]
    BY <1>1 DEF LowIndex, Scan, ScanOn
  <1>3. Scan(f, "low", s, n)
    BY ScanRuns
  <1> HIDE DEF f
  <1>4. \A i \in 1..n : f[i] = IF i > 1 /\ AtMostMinus10dB(s[i - 1]) THEN f[i - 1] ELSE i
    BY <1>3 DEF Scan, ScanOn
  <1> DEFINE S == {k \in Nat : k + 1 <= n => DeepFrom(f[k + 1], s, k + 1)}
  <1>5. 0 \in S
    <2>1. f[1] = 1
      BY <1>4
    <2> QED
      BY <2>1 DEF DeepFrom
  <1>6. ASSUME NEW k \in Nat, k \in S PROVE k + 1 \in S
    <2> SUFFICES ASSUME (k + 1) + 1 <= n
                 PROVE  DeepFrom(f[(k + 1) + 1], s, (k + 1) + 1)
      OBVIOUS
    <2>1. PICK m \in 1..n, o \in 1..n : m = k + 1 /\ o = m + 1 /\ o - 1 = m /\ o > 1
      OBVIOUS
    <2>2. DeepFrom(f[m], s, m)
      BY <1>6, <2>1
    <2>3. f[o] = IF AtMostMinus10dB(s[m]) THEN f[m] ELSE o
      BY <1>4, <2>1
    <2>4. CASE AtMostMinus10dB(s[m])
      <3>1. PICK v \in 1..m : v = f[m] /\ v = f[o]
        BY <2>2, <2>3, <2>4 DEF DeepFrom
      <3>2. \A i \in v..(o - 1) : i \in v..(m - 1) \/ i = m
        BY <2>1
      <3>3. \A i \in v..(o - 1) : AtMostMinus10dB(s[i])
        BY <2>2, <2>4, <3>1, <3>2 DEF DeepFrom
      <3>4. v \in 1..o
        BY <2>1
      <3>5. v = 1 \/ ~ AtMostMinus10dB(s[v - 1])
        BY <2>2, <3>1 DEF DeepFrom
      <3>6. DeepFrom(v, s, o)
        BY <3>3, <3>4, <3>5 DEF DeepFrom
      <3> QED
        BY <2>1, <3>1, <3>6
    <2>5. CASE ~ AtMostMinus10dB(s[m])
      <3>1. f[o] = o /\ o \in 1..o
        BY <2>3, <2>5
      <3>2. DeepFrom(o, s, o)
        BY <2>1, <2>5, <3>1 DEF DeepFrom
      <3> QED
        BY <2>1, <3>1, <3>2
    <2> QED
      BY <2>4, <2>5
  <1> HIDE DEF S
  <1>7. Nat \subseteq S
    BY <1>5, <1>6, NatSetInduction
  <1>8. r - 1 \in S /\ (r - 1) + 1 = r /\ r <= n
    BY <1>7
  <1> QED
    BY <1>2, <1>8 DEF S

\* The walk up is the walk down, counted from the other end.
HighOn(v, s, i, n) == IF i < n /\ AtMostMinus10dB(s[i + 1]) THEN v ELSE i

HighScan(f, s, n) == f = [i \in 1..n |-> HighOn(f[i + 1], s, i, n)]

LEMMA HighScanRuns ==
  ASSUME NEW s, NEW n \in Nat \ {0}
  PROVE  \E f : HighScan(f, s, n)
  <1> DEFINE V == 1..n
             G == [x \in (1..(n - 1)) \X V |-> HighOn(x[2], s, n - x[1], n)]
  <1>1. \A k \in 1..(n - 1), v \in V : HighOn(v, s, n - k, n) \in V
    BY DEF HighOn
  <1>2. \A k \in 1..(n - 1), v \in V :
           G[<<k, v>>] = HighOn(v, s, n - k, n) /\ G[<<k, v>>] \in V
    BY <1>1
  <1>3. n \in V /\ n - 1 \in Nat
    OBVIOUS
  <1> HIDE DEF G, V
  <1>4. PICK g : Turns(g, n - 1, n, G) /\ Along(g, n - 1, n, G, V)
    BY <1>2, <1>3, TurnsExist
  <1> DEFINE f == [i \in 1..n |-> g[n - i]]
  <1>5. g[0] = n /\ \A k \in 1..(n - 1) : g[k] = HighOn(g[k - 1], s, n - k, n)
    <2>1. \A k \in 1..(n - 1) : k - 1 \in 0..(n - 1)
      OBVIOUS
    <2> QED
      BY <1>2, <1>4, <2>1 DEF Along
  <1>6. ASSUME NEW i \in 1..n PROVE f[i] = HighOn(f[i + 1], s, i, n)
    <2>1. CASE i = n
      <3>1. f[i] = g[0]
        BY <2>1
      <3>2. HighOn(f[i + 1], s, i, n) = n
        BY <2>1 DEF HighOn
      <3> QED
        BY <1>5, <3>1, <3>2
    <2>2. CASE i # n
      <3>1. PICK k \in 1..(n - 1) : k = n - i /\ n - k = i /\ k - 1 = n - (i + 1)
        BY <2>2
      <3>2. f[i] = g[k] /\ f[i + 1] = g[k - 1]
        BY <2>2, <3>1
      <3> HIDE DEF f
      <3> QED
        BY <1>5, <3>1, <3>2
    <2> QED
      BY <2>1, <2>2
  <1>7. f = [i \in 1..n |-> HighOn(f[i + 1], s, i, n)]
    <2>1. f = [i \in 1..n |-> f[i]]
      OBVIOUS
    <2> HIDE DEF f
    <2> QED
      BY <1>6, <2>1
  <1> QED
    BY <1>7 DEF HighScan

\* The samples from just above low up to high are deep, and the one above is not.
DeepTo(high, s, low, n) ==
  /\ high \in low..n
  /\ \A i \in (low + 1)..high : AtMostMinus10dB(s[i])
  /\ high = n \/ ~ AtMostMinus10dB(s[high + 1])

LEMMA HighIndexEndsTheRun ==
  ASSUME NEW T, NEW s \in Seq(T), NEW n \in Nat \ {0}, n = Len(s), NEW r \in 1..n
  PROVE  DeepTo(HighIndex(s, r), s, r, n)
  <1>1. DOMAIN s = 1..n
    OBVIOUS
  <1> DEFINE f == CHOOSE g : HighScan(g, s, n)
  <1>2. HighIndex(s, r) = f[r]
    BY <1>1 DEF HighIndex, HighScan, HighOn
  <1>3. HighScan(f, s, n)
    BY HighScanRuns
  <1> HIDE DEF f
  <1>4. \A i \in 1..n : f[i] = IF i < n /\ AtMostMinus10dB(s[i + 1]) THEN f[i + 1] ELSE i
    BY <1>3 DEF HighScan, HighOn
  <1> DEFINE S == {k \in Nat : k < n => DeepTo(f[n - k], s, n - k, n)}
  <1>5. 0 \in S
    <2>1. f[n] = n /\ n - 0 = n
      BY <1>4
    <2> QED
      BY <2>1 DEF DeepTo
  <1>6. ASSUME NEW k \in Nat, k \in S PROVE k + 1 \in S
    <2> SUFFICES ASSUME k + 1 < n PROVE DeepTo(f[n - (k + 1)], s, n - (k + 1), n)
      OBVIOUS
    <2>1. PICK m \in 1..n, o \in 1..n : m = n - k /\ o = n - (k + 1) /\ o + 1 = m /\ o < n
      <3>1. PICK a : a = n - k
        OBVIOUS
      <3>2. PICK b : b = n - (k + 1)
        OBVIOUS
      <3>3. a \in 1..n /\ b \in 1..n /\ b + 1 = a /\ b < n
        BY <3>1, <3>2
      <3> QED
        BY <3>1, <3>2, <3>3
    <2>2. DeepTo(f[m], s, m, n)
      BY <1>6, <2>1
    <2>3. f[o] = IF AtMostMinus10dB(s[m]) THEN f[m] ELSE o
      BY <1>4, <2>1
    <2>4. CASE AtMostMinus10dB(s[m])
      <3>1. PICK v \in m..n : v = f[m] /\ v = f[o]
        BY <2>2, <2>3, <2>4 DEF DeepTo
      <3>2. \A i \in (o + 1)..v : i \in (m + 1)..v \/ i = m
        BY <2>1
      <3>3. \A i \in (o + 1)..v : AtMostMinus10dB(s[i])
        BY <2>2, <2>4, <3>1, <3>2 DEF DeepTo
      <3>4. v \in o..n
        BY <2>1
      <3>5. v = n \/ ~ AtMostMinus10dB(s[v + 1])
        BY <2>2, <3>1 DEF DeepTo
      <3>6. DeepTo(v, s, o, n)
        BY <3>3, <3>4, <3>5 DEF DeepTo
      <3> QED
        BY <2>1, <3>1, <3>6
    <2>5. CASE ~ AtMostMinus10dB(s[m])
      <3>1. f[o] = o /\ o \in o..n
        BY <2>1, <2>3, <2>5
      <3>2. DeepTo(o, s, o, n)
        BY <2>1, <2>5, <3>1 DEF DeepTo
      <3> QED
        BY <2>1, <3>1, <3>2
    <2> QED
      BY <2>4, <2>5
  <1> HIDE DEF S
  <1>7. Nat \subseteq S
    BY <1>5, <1>6, NatSetInduction
  <1>8. n - r \in S /\ n - (n - r) = r /\ n - r < n
    BY <1>7
  <1> QED
    BY <1>2, <1>8 DEF S

----------------------------------------------------------------------------
(* The metrics' order, and values and omissions in it.                     *)

MetricNames ==
  {"s11_min", "resonant_frequency", "minus_10db_bandwidth", "s11_at_target",
   "vswr_at_target", "impedance_at_target_resistance", "impedance_at_target_reactance"}

LEMMA RanksOfMetrics ==
  /\ DOMAIN MetricOrder = 1..7
  /\ \A i \in 1..7 : MetricOrder[i] \in MetricNames /\ Rank(MetricOrder[i]) = i
  /\ \A m \in MetricNames : Rank(m) \in 1..7 /\ MetricOrder[Rank(m)] = m
  /\ ToSet(MetricOrder) = MetricNames
  <1>1. /\ DOMAIN MetricOrder = 1..7
        /\ MetricOrder[1] = "s11_min" /\ MetricOrder[2] = "resonant_frequency"
        /\ MetricOrder[3] = "minus_10db_bandwidth" /\ MetricOrder[4] = "s11_at_target"
        /\ MetricOrder[5] = "vswr_at_target"
        /\ MetricOrder[6] = "impedance_at_target_resistance"
        /\ MetricOrder[7] = "impedance_at_target_reactance"
    BY DEF MetricOrder
  <1>2. \A i \in 1..7 : i = 1 \/ i = 2 \/ i = 3 \/ i = 4 \/ i = 5 \/ i = 6 \/ i = 7
    OBVIOUS
  <1>3. \A i \in 1..7 : MetricOrder[i] \in MetricNames
    BY <1>1, <1>2 DEF MetricNames
  <1>4. \A m \in MetricNames : \E i \in 1..7 : MetricOrder[i] = m
    <2>1. 1 \in 1..7 /\ 2 \in 1..7 /\ 3 \in 1..7 /\ 4 \in 1..7
          /\ 5 \in 1..7 /\ 6 \in 1..7 /\ 7 \in 1..7
      OBVIOUS
    <2> QED
      BY <1>1, <2>1, Zenon DEF MetricNames
  <1>5. \A i, j \in 1..7 : MetricOrder[i] = MetricOrder[j] => i = j
    BY <1>1, <1>2
  <1>6. \A i \in 1..7 : Rank(MetricOrder[i]) = i
    BY <1>1, <1>5 DEF Rank
  <1>7. ToSet(MetricOrder) = MetricNames
    BY <1>1, <1>3, <1>4 DEF ToSet
  <1> QED
    BY <1>1, <1>3, <1>4, <1>6, <1>7

\* Entries of metrics from one rank to another, in order, each metric once.
Ranked(s, low, high) ==
  /\ \A i \in DOMAIN s : s[i].metric \in MetricNames /\ Rank(s[i].metric) \in low..high
  /\ \A i, j \in DOMAIN s : i < j => Rank(s[i].metric) < Rank(s[j].metric)

LEMMA RankedJoin ==
  ASSUME NEW T, NEW s \in Seq(T), NEW t \in Seq(T),
         NEW low \in Nat, NEW between \in Nat, NEW high \in Nat,
         low <= between, between <= high,
         Ranked(s, low, between), Ranked(t, between + 1, high)
  PROVE  /\ Ranked(s \o t, low, high)
         /\ ToSet(s \o t) = ToSet(s) \cup ToSet(t)
         /\ s \o t \in Seq(T)
  <1>1. PICK n \in Nat, m \in Nat : n = Len(s) /\ m = Len(t)
    OBVIOUS
  <1>2. DOMAIN s = 1..n /\ DOMAIN t = 1..m
    BY <1>1
  <1> DEFINE u == s \o t
  <1>3. Joined(u, s, t, n, m)
    BY <1>1, JoinedPlaces
  <1> HIDE DEF u
  <1>4. /\ DOMAIN u = 1..(n + m)
        /\ \A i \in 1..n : u[i] = s[i]
        /\ \A i \in 1..m : u[n + i] = t[i]
    BY <1>3 DEF Joined
  <1>5. ASSUME NEW i \in 1..(n + m)
        PROVE  \/ i \in 1..n /\ u[i] = s[i]
               \/ \E k \in 1..m : i = n + k /\ u[i] = t[k]
    <2>1. CASE i <= n
      BY <1>4, <2>1
    <2>2. CASE i > n
      <3>1. i - n \in 1..m /\ i = n + (i - n)
        BY <2>2
      <3> QED
        BY <1>4, <3>1
    <2> QED
      BY <2>1, <2>2
  <1>6. /\ \A i \in 1..n : /\ s[i].metric \in MetricNames
                           /\ Rank(s[i].metric) \in low..between
        /\ \A i, j \in 1..n : i < j => Rank(s[i].metric) < Rank(s[j].metric)
    BY <1>2 DEF Ranked
  <1>7. /\ \A i \in 1..m : /\ t[i].metric \in MetricNames
                           /\ Rank(t[i].metric) \in (between + 1)..high
        /\ \A i, j \in 1..m : i < j => Rank(t[i].metric) < Rank(t[j].metric)
    BY <1>2 DEF Ranked
  <1>8. ASSUME NEW i \in 1..(n + m)
        PROVE  u[i].metric \in MetricNames /\ Rank(u[i].metric) \in low..high
    <2>1. CASE i \in 1..n /\ u[i] = s[i]
      BY <1>6, <2>1
    <2>2. CASE \E k \in 1..m : i = n + k /\ u[i] = t[k]
      BY <1>7, <2>2
    <2> QED
      BY <1>5, <2>1, <2>2
  <1>9. ASSUME NEW i \in 1..(n + m), NEW j \in 1..(n + m), i < j
        PROVE  Rank(u[i].metric) < Rank(u[j].metric)
    <2>1. CASE i \in 1..n /\ u[i] = s[i] /\ j \in 1..n /\ u[j] = s[j]
      BY <1>6, <1>9, <2>1
    <2>2. ASSUME NEW k \in 1..m, j = n + k, u[j] = t[k], i \in 1..n, u[i] = s[i]
          PROVE  Rank(u[i].metric) < Rank(u[j].metric)
      <3>1. Rank(s[i].metric) \in low..between /\ Rank(t[k].metric) \in (between + 1)..high
        BY <1>6, <1>7, <2>2
      <3> QED
        BY <2>2, <3>1
    <2>3. ASSUME NEW k \in 1..m, j = n + k, u[j] = t[k],
                 NEW l \in 1..m, i = n + l, u[i] = t[l]
          PROVE  Rank(u[i].metric) < Rank(u[j].metric)
      <3>1. l < k
        BY <1>9, <2>3
      <3> QED
        BY <1>7, <2>3, <3>1
    <2>4. j \in 1..n => i \in 1..n
      BY <1>9
    <2>5. i \in 1..n => u[i] = s[i]
      BY <1>4
    <2> QED
      BY <1>5, <2>1, <2>2, <2>3, <2>4, <2>5
  <1>10. Ranked(u, low, high)
    BY <1>4, <1>8, <1>9 DEF Ranked
  <1>11. ToSet(u) = ToSet(s) \cup ToSet(t)
    <2>1. ToSet(s) = {s[i] : i \in 1..n} /\ ToSet(t) = {t[i] : i \in 1..m}
          /\ ToSet(u) = {u[i] : i \in 1..(n + m)}
      BY <1>2, <1>4 DEF ToSet
    <2>2. \A i \in 1..(n + m) : u[i] \in ToSet(s) \cup ToSet(t)
      BY <1>5, <2>1
    <2>3. \A i \in 1..n : s[i] \in ToSet(u)
      <3> TAKE i \in 1..n
      <3>1. i \in 1..(n + m) /\ u[i] = s[i]
        BY <1>4
      <3> QED
        BY <2>1, <3>1
    <2>4. \A i \in 1..m : t[i] \in ToSet(u)
      <3> TAKE i \in 1..m
      <3>1. n + i \in 1..(n + m)
        OBVIOUS
      <3>2. u[n + i] = t[i]
        BY <1>4
      <3> QED
        BY <2>1, <3>1, <3>2
    <2> QED
      BY <2>1, <2>2, <2>3, <2>4
  <1> QED
    BY <1>10, <1>11 DEF u

\* A choice of ranked entries is ranked.
LEMMA RankedKept ==
  ASSUME NEW T, NEW s \in Seq(T), NEW chosen \in SUBSET DOMAIN s,
         NEW low, NEW high, Ranked(s, low, high)
  PROVE  Ranked(Kept(s, chosen), low, high)
  <1> DEFINE v == Kept(s, chosen)
  <1>1. PICK p : Numbering(p, v, s, chosen, Len(s))
    BY KeptInOrder
  <1>2. v \in Seq(T)
    BY KeptHolds
  <1> HIDE DEF v
  <1>3. PICK m \in Nat : m = Len(v) /\ DOMAIN v = 1..m
    BY <1>2
  <1>4. /\ \A a \in 1..m : p[a] \in DOMAIN s /\ v[a] = s[p[a]]
        /\ \A a, b \in 1..m : a < b => p[a] < p[b]
    BY <1>1, <1>3 DEF Numbering
  <1>5. \A a \in 1..m : v[a].metric \in MetricNames /\ Rank(v[a].metric) \in low..high
    BY <1>4 DEF Ranked
  <1>6. \A a, b \in 1..m : a < b => Rank(v[a].metric) < Rank(v[b].metric)
    BY <1>4 DEF Ranked
  <1> QED
    BY <1>3, <1>5, <1>6 DEF Ranked, v

\* An entry is known by its metric.
LEMMA RankedOnce ==
  ASSUME NEW T, NEW s \in Seq(T), NEW low, NEW high, Ranked(s, low, high),
         NEW x \in ToSet(s), NEW y \in ToSet(s), x.metric = y.metric
  PROVE  x = y
  <1>1. PICK n \in Nat : DOMAIN s = 1..n
    OBVIOUS
  <1>2. PICK i \in 1..n, j \in 1..n : x = s[i] /\ y = s[j]
    BY <1>1 DEF ToSet
  <1>3. \A k \in 1..n : Rank(s[k].metric) \in Int
    BY <1>1, RanksOfMetrics DEF Ranked
  <1>4. i < j => Rank(x.metric) < Rank(y.metric)
    BY <1>1, <1>2 DEF Ranked
  <1>5. j < i => Rank(y.metric) < Rank(x.metric)
    BY <1>1, <1>2 DEF Ranked
  <1>6. ~ (Rank(x.metric) < Rank(x.metric))
    BY <1>2, <1>3
  <1> QED
    BY <1>2, <1>4, <1>5, <1>6

----------------------------------------------------------------------------
(* The formulas: on a usable series every number is whole or infinite.     *)

Sample == [re : Number, im : Number]

LEMMA UsableIsWhole ==
  ASSUME NEW frequencies \in Seq(Number), NEW s11 \in Seq(Sample),
         SeriesIsUsable(frequencies, s11)
  PROVE  \E n \in Nat \ {0} :
           /\ n = Len(s11) /\ DOMAIN s11 = 1..n
           /\ n = Len(frequencies) /\ DOMAIN frequencies = 1..n
           /\ \A i \in 1..n : /\ frequencies[i] \in Int
                              /\ s11[i].re \in Int /\ s11[i].im \in Int
                              /\ Magnitude(s11[i]) \in Int
  <1>1. PICK n \in Nat : n = Len(s11) /\ DOMAIN s11 = 1..n
    OBVIOUS
  <1>2. /\ s11 # <<>>
        /\ \A i \in 1..n : Finite(s11[i].re) /\ Finite(s11[i].im)
        /\ Len(frequencies) = n
        /\ \A i \in DOMAIN frequencies : Finite(frequencies[i])
    BY <1>1 DEF SeriesIsUsable, SamplesAreUsable
  <1>3. n # 0
    BY <1>1, <1>2
  <1>4. DOMAIN frequencies = 1..n
    BY <1>2
  <1>5. ASSUME NEW i \in 1..n
        PROVE  /\ frequencies[i] \in Int /\ s11[i].re \in Int /\ s11[i].im \in Int
               /\ Magnitude(s11[i]) \in Int
    <2>1. frequencies[i] \in Number
      BY <1>4
    <2>2. s11[i] \in Sample
      BY <1>1
    <2>3. s11[i].re \in Number /\ s11[i].im \in Number
      BY <2>2 DEF Sample
    <2>4. \A x \in Number : Finite(x) => x \in Int
      BY DEF Number, Finite
    <2>5. frequencies[i] \in Int /\ s11[i].re \in Int /\ s11[i].im \in Int
      BY <1>2, <1>4, <2>1, <2>3, <2>4
    <2> QED
      BY <2>5 DEF Magnitude
  <1> QED
    BY <1>1, <1>2, <1>3, <1>4, <1>5

LEMMA TargetIsWhole ==
  ASSUME NEW frequencies \in Seq(Number), NEW s11 \in Seq(Sample), NEW target \in Number,
         TargetIsUsable(frequencies, s11, target)
  PROVE  /\ target \in Int
         /\ frequencies[1] <= target /\ target <= frequencies[Len(frequencies)]
  <1>1. SeriesIsUsable(frequencies, s11)
    BY DEF TargetIsUsable
  <1>2. PICK n \in Nat \ {0} : /\ n = Len(frequencies)
                               /\ \A i \in 1..n : frequencies[i] \in Int
    BY <1>1, UsableIsWhole
  <1>3. 1 \in 1..n /\ n \in 1..n
    OBVIOUS
  <1>4. PICK a \in Int, b \in Int : a = frequencies[1] /\ b = frequencies[n]
    BY <1>2, <1>3
  <1>5. Leq(a, target) /\ Leq(target, b)
    BY <1>2, <1>4 DEF TargetIsUsable
  <1>6. target \in Int
    BY <1>4, <1>5, NonFiniteAssumption, InfinitiesAssumption
    DEF Number, NonFinite, Leq, Finite
  <1>7. a <= target /\ target <= b
    BY <1>4, <1>5, <1>6, NonFiniteAssumption DEF NonFinite, Leq, Finite
  <1> QED
    BY <1>2, <1>4, <1>6, <1>7

\* A set of naturals has a least member.
LEMMA LeastOfNaturals ==
  ASSUME NEW S \in SUBSET Nat, S # {}
  PROVE  Min(S) \in S /\ \A x \in S : Min(S) <= x
  <1>1. PICK x \in S : \A y \in S : ~(<<y, x>> \in OpToRel(<, Nat))
    BY WFMin, NatLessThanWellFounded
  <1>2. \A y \in S : ~(y < x)
    BY <1>1 DEF OpToRel
  <1>3. \A y \in S : x <= y
    BY <1>2
  <1> QED
    BY <1>3 DEF Min

LEMMA InterpolatedIsWhole ==
  ASSUME NEW frequencies \in Seq(Number), NEW s11 \in Seq(Sample), NEW target \in Number,
         TargetIsUsable(frequencies, s11, target)
  PROVE  InterpolatedGamma(frequencies, s11, target) \in Coefficient
  <1>1. /\ target \in Int
        /\ frequencies[1] <= target /\ target <= frequencies[Len(frequencies)]
    BY TargetIsWhole
  <1>2. PICK n \in Nat \ {0} :
          /\ n = Len(s11) /\ n = Len(frequencies) /\ DOMAIN frequencies = 1..n
          /\ \A i \in 1..n : /\ frequencies[i] \in Int
                             /\ s11[i].re \in Int /\ s11[i].im \in Int
    BY UsableIsWhole DEF TargetIsUsable
  <1> DEFINE reached == {i \in DOMAIN frequencies : target <= frequencies[i]}
             above == Min(reached)
             below == above - 1
             step == frequencies[above] - frequencies[below]
             along(low, high) == low * step + (high - low) * (target - frequencies[below])
  <1>3. above \in 1..n /\ target <= frequencies[above]
    <2>1. reached \in SUBSET Nat /\ n \in reached
      BY <1>1, <1>2
    <2>2. above \in reached
      BY <2>1, LeastOfNaturals
    <2> QED
      BY <1>2, <2>2
  <1>4. InterpolatedGamma(frequencies, s11, target) =
          IF frequencies[above] = target THEN Gamma(s11[above])
          ELSE [re |-> along(s11[below].re, s11[above].re),
                im |-> along(s11[below].im, s11[above].im),
                den |-> Unit * step]
    BY DEF InterpolatedGamma
  <1>5. Unit \in Int
    BY UnitAssumption
  <1> HIDE DEF above
  <1>6. CASE frequencies[above] = target
    BY <1>2, <1>3, <1>4, <1>5, <1>6 DEF Gamma, Coefficient
  <1>7. CASE frequencies[above] # target
    <2>1. above # 1
      <3>1. 1 \in 1..n
        OBVIOUS
      <3>2. frequencies[1] \in Int
        BY <1>2, <3>1
      <3> QED
        BY <1>1, <1>3, <1>7, <3>2
    <2>2. below \in 1..n
      BY <1>3, <2>1
    <2>3. PICK fa \in Int, fb \in Int : fa = frequencies[above] /\ fb = frequencies[below]
      BY <1>2, <1>3, <2>2
    <2>4. PICK ra \in Int, rb \in Int, ia \in Int, ib \in Int :
            /\ ra = s11[above].re /\ rb = s11[below].re
            /\ ia = s11[above].im /\ ib = s11[below].im
      BY <1>2, <1>3, <2>2
    <2> HIDE DEF below
    <2>5. step = fa - fb /\ fa - fb \in Int /\ target - fb \in Int
          /\ ra - rb \in Int /\ ia - ib \in Int
      BY <1>1, <2>3
    <2>6. InterpolatedGamma(frequencies, s11, target) =
            [re |-> rb * (fa - fb) + (ra - rb) * (target - fb),
             im |-> ib * (fa - fb) + (ia - ib) * (target - fb),
             den |-> Unit * (fa - fb)]
      BY <1>4, <1>7, <2>3, <2>4
    <2>7. /\ rb * (fa - fb) + (ra - rb) * (target - fb) \in Int
          /\ ib * (fa - fb) + (ia - ib) * (target - fb) \in Int
          /\ Unit * (fa - fb) \in Int
      BY <1>5, <2>5
    <2> QED
      BY <2>6, <2>7 DEF Coefficient
  <1> QED
    BY <1>6, <1>7

\* What a record can carry, and what the formulas give.
Carried == [hz : Int] \cup [num : Int, den : Int] \cup [vswr_of : Coefficient]

LEMMA CarriedIsFinite ==
  /\ \A x \in Carried : Finite(x) /\ x # ValueError
  /\ \A x, y \in Fraction \cup {NaN} : [re |-> x, im |-> y] # ValueError
  /\ \A x \in NonFinite : x # ValueError
  BY ValueErrorAssumption, ErrorAssumption DEF Carried, Fraction, Finite

LEMMA LevelsAreCarried ==
  ASSUME NEW frequencies \in Seq(Number), NEW s11 \in Seq(Sample),
         SeriesIsUsable(frequencies, s11)
  PROVE  /\ S11Min(s11) \in Carried \cup {NegInf}
         /\ ResonantFrequency(frequencies, s11) = frequencies[ResonanceIndex(s11)]
         /\ Hz(ResonantFrequency(frequencies, s11)) \in Carried
         /\ FirstDeepest(ResonanceIndex(s11), s11, Len(s11))
  <1>1. PICK n \in Nat \ {0} :
          /\ n = Len(s11) /\ DOMAIN s11 = 1..n
          /\ \A i \in 1..n : frequencies[i] \in Int /\ Magnitude(s11[i]) \in Int
    BY UsableIsWhole
  <1>2. FirstDeepest(ResonanceIndex(s11), s11, n)
    <2>1. s11 # <<>>
      BY <1>1
    <2> QED
      BY <1>1, <2>1, ResonanceIsFirstDeepest
  <1>3. PICK r \in 1..n : /\ r = ResonanceIndex(s11)
                          /\ \A i \in 1..n : Magnitude(s11[r]) <= Magnitude(s11[i])
    BY <1>2 DEF FirstDeepest
  <1>4. Min({Magnitude(s11[i]) : i \in DOMAIN s11}) = Magnitude(s11[r])
    <2> DEFINE M == {Magnitude(s11[i]) : i \in DOMAIN s11}
    <2>1. /\ Magnitude(s11[r]) \in M /\ M \subseteq Int
          /\ \A y \in M : Magnitude(s11[r]) <= y
      BY <1>1, <1>3
    <2> HIDE DEF M
    <2>2. PICK x : x = Magnitude(s11[r])
      OBVIOUS
    <2>3. x \in M /\ (\A y \in M : x <= y) /\ M \subseteq Int
      BY <2>1, <2>2
    <2>4. \A z \in M : (\A y \in M : z <= y) => z = x
      BY <2>3
    <2>5. Min(M) = x
      BY <2>3, <2>4 DEF Min
    <2> QED
      BY <2>2, <2>5 DEF M
  <1>5. S11Min(s11) \in Carried \cup {NegInf}
    <2>1. SamplesAreUsable(s11)
      BY DEF SeriesIsUsable
    <2>2. S11Min(s11) = IF Magnitude(s11[r]) = 0 THEN NegInf
                        ELSE [num |-> Magnitude(s11[r]), den |-> Unit * Unit]
      BY <1>4, <2>1 DEF S11Min
    <2>3. Magnitude(s11[r]) \in Int /\ Unit * Unit \in Int
      BY <1>1, UnitAssumption
    <2> QED
      BY <2>2, <2>3 DEF Carried
  <1>6. ResonantFrequency(frequencies, s11) = frequencies[r]
    BY <1>3 DEF ResonantFrequency
  <1>7. Hz(frequencies[r]) \in Carried
    BY <1>1 DEF Hz, Carried
  <1> QED
    BY <1>1, <1>2, <1>3, <1>5, <1>6, <1>7

\* The band: the run of deep samples around the resonance, or no band.
LEMMA BandIsTheRun ==
  ASSUME NEW frequencies \in Seq(Number), NEW s11 \in Seq(Sample),
         SeriesIsUsable(frequencies, s11)
  PROVE  LET band == Minus10dBBandwidth(frequencies, s11)
             r == ResonanceIndex(s11)
         IN IF AtMostMinus10dB(s11[r])
            THEN /\ band # NoBand
                 /\ Hz(band.width) \in Carried
                 /\ \E low \in 1..r, high \in r..Len(s11) :
                      /\ DeepFrom(low, s11, r) /\ DeepTo(high, s11, r, Len(s11))
                      /\ band.width = frequencies[high] - frequencies[low]
            ELSE band = NoBand
  <1>1. PICK n \in Nat \ {0} :
          /\ n = Len(s11) /\ DOMAIN s11 = 1..n
          /\ \A i \in 1..n : frequencies[i] \in Int
    BY UsableIsWhole
  <1>2. PICK r \in 1..n : r = ResonanceIndex(s11)
    BY <1>1, LevelsAreCarried DEF FirstDeepest
  <1> DEFINE low == LowIndex(s11, r)
             high == HighIndex(s11, r)
             band == Minus10dBBandwidth(frequencies, s11)
  <1>3. DeepFrom(low, s11, r) /\ DeepTo(high, s11, r, n)
    BY <1>1, LowIndexEndsTheRun, HighIndexEndsTheRun
  <1>4. low \in 1..r /\ high \in r..n
    BY <1>3 DEF DeepFrom, DeepTo
  <1>5. low \in 1..n /\ high \in 1..n
    BY <1>4
  <1>6. band = IF ~ AtMostMinus10dB(s11[r]) THEN NoBand
               ELSE [arm |-> "Minus10dBBand", low |-> frequencies[low],
                     high |-> frequencies[high],
                     width |-> frequencies[high] - frequencies[low]]
    BY <1>2 DEF Minus10dBBandwidth
  <1>7. Hz(frequencies[high] - frequencies[low]) \in Carried
    <2>1. frequencies[high] - frequencies[low] \in Int
      BY <1>1, <1>5
    <2> QED
      BY <2>1 DEF Hz, Carried
  <1> HIDE DEF low, high, band
  <1>8. CASE AtMostMinus10dB(s11[r])
    <2>1. band.arm = "Minus10dBBand" /\ band.width = frequencies[high] - frequencies[low]
      BY <1>6, <1>8
    <2>2. NoBand.arm # "Minus10dBBand"
      BY DEF NoBand
    <2>3. band # NoBand
      BY <2>1, <2>2
    <2> QED
      BY <1>1, <1>2, <1>3, <1>4, <1>7, <1>8, <2>1, <2>3 DEF band
  <1>9. CASE ~ AtMostMinus10dB(s11[r])
    BY <1>2, <1>6, <1>9 DEF band
  <1> QED
    BY <1>8, <1>9

----------------------------------------------------------------------------
(* Each metric once: as a value, or as an omission with its reason.        *)

ToldValues == Carried \cup {NegInf, PosInf, NaN}

Reasons == {"no band", "non-physical", "unbounded", "no intent"}

ValueEntry == [metric : MetricNames, value : ToldValues]

OmissionEntry == [metric : MetricNames, reason : Reasons]

MetricsIn(s) == {e.metric : e \in ToSet(s)}

\* The metrics from one rank to another: values and omissions, no gap, none twice.
Account(values, omissions, low, high) ==
  /\ values \in Seq(ValueEntry) /\ Ranked(values, low, high)
  /\ omissions \in Seq(OmissionEntry) /\ Ranked(omissions, low, high)
  /\ \A k \in low..high : MetricOrder[k] \in MetricsIn(values) \cup MetricsIn(omissions)
  /\ MetricsIn(values) \cap MetricsIn(omissions) = {}

LEMMA RankedIn ==
  ASSUME NEW s, NEW low, NEW high, Ranked(s, low, high)
  PROVE  \A m \in MetricsIn(s) : m \in MetricNames /\ Rank(m) \in low..high
  BY DEF Ranked, MetricsIn, ToSet

LEMMA PartsJoin ==
  ASSUME NEW low \in Nat, NEW between \in Nat, NEW high \in Nat,
         low <= between, between <= high,
         NEW v \in Seq(ValueEntry), NEW o \in Seq(OmissionEntry),
         Account(v, o, low, between),
         NEW next, next = between + 1,
         NEW w \in Seq(ValueEntry), NEW q \in Seq(OmissionEntry),
         Account(w, q, next, high)
  PROVE  /\ Account(v \o w, o \o q, low, high)
         /\ ToSet(v \o w) = ToSet(v) \cup ToSet(w)
         /\ ToSet(o \o q) = ToSet(o) \cup ToSet(q)
  <1>1. /\ v \in Seq(ValueEntry) /\ w \in Seq(ValueEntry)
        /\ o \in Seq(OmissionEntry) /\ q \in Seq(OmissionEntry)
        /\ Ranked(v, low, between) /\ Ranked(w, between + 1, high)
        /\ Ranked(o, low, between) /\ Ranked(q, between + 1, high)
    BY DEF Account
  <1>2. /\ Ranked(v \o w, low, high) /\ ToSet(v \o w) = ToSet(v) \cup ToSet(w)
        /\ v \o w \in Seq(ValueEntry)
    BY <1>1, RankedJoin
  <1>3. /\ Ranked(o \o q, low, high) /\ ToSet(o \o q) = ToSet(o) \cup ToSet(q)
        /\ o \o q \in Seq(OmissionEntry)
    BY <1>1, RankedJoin
  <1>4. /\ MetricsIn(v \o w) = MetricsIn(v) \cup MetricsIn(w)
        /\ MetricsIn(o \o q) = MetricsIn(o) \cup MetricsIn(q)
    BY <1>2, <1>3 DEF MetricsIn
  <1>5. ASSUME NEW k \in low..high
        PROVE  MetricOrder[k] \in MetricsIn(v \o w) \cup MetricsIn(o \o q)
    <2>1. k \in low..between \/ k \in (between + 1)..high
      OBVIOUS
    <2> QED
      BY <1>4, <2>1 DEF Account
  <1>6. MetricsIn(v \o w) \cap MetricsIn(o \o q) = {}
    <2>1. /\ \A m \in MetricsIn(v) \cup MetricsIn(o) : Rank(m) \in low..between
          /\ \A m \in MetricsIn(w) \cup MetricsIn(q) : Rank(m) \in (between + 1)..high
      BY <1>1, RankedIn
    <2>2. \A m : ~ (Rank(m) \in low..between /\ Rank(m) \in (between + 1)..high)
      OBVIOUS
    <2>3. MetricsIn(v) \cap MetricsIn(o) = {} /\ MetricsIn(w) \cap MetricsIn(q) = {}
      BY DEF Account
    <2>4. MetricsIn(v) \cap MetricsIn(q) = {} /\ MetricsIn(w) \cap MetricsIn(o) = {}
      BY <2>1, <2>2
    <2> QED
      BY <1>4, <2>3, <2>4
  <1> QED
    BY <1>2, <1>3, <1>5, <1>6 DEF Account

\* The part of one metric.
LEMMA SinglePart ==
  ASSUME NEW k \in 1..7
  PROVE  /\ \A x \in ToldValues : /\ Account(<<Value(MetricOrder[k], x)>>, <<>>, k, k)
                                  /\ ToSet(<<Value(MetricOrder[k], x)>>)
                                       = {Value(MetricOrder[k], x)}
         /\ \A x \in Reasons : /\ Account(<<>>, <<Omission(MetricOrder[k], x)>>, k, k)
                               /\ ToSet(<<Omission(MetricOrder[k], x)>>)
                                    = {Omission(MetricOrder[k], x)}
  <1>1. PICK m \in MetricNames : m = MetricOrder[k] /\ Rank(m) = k
    BY RanksOfMetrics
  <1>2. \A e : /\ DOMAIN <<e>> = 1..1 /\ <<e>>[1] = e /\ <<e>> \in Seq({e})
               /\ ToSet(<<e>>) = {e}
    BY DEF ToSet
  <1>3. \A S : <<>> \in Seq(S)
    OBVIOUS
  <1>4. DOMAIN <<>> = {} /\ ToSet(<<>>) = {}
    BY DEF ToSet
  <1>5. k \in k..k /\ \A i \in k..k : i = k
    OBVIOUS
  <1>6. Ranked(<<>>, k, k) /\ MetricsIn(<<>>) = {}
    BY <1>4 DEF Ranked, MetricsIn
  <1>7. ASSUME NEW e, e.metric = m
        PROVE  Ranked(<<e>>, k, k) /\ MetricsIn(<<e>>) = {m}
    <2>1. MetricsIn(<<e>>) = {m}
      BY <1>2, <1>7 DEF MetricsIn
    <2>2. \A i \in DOMAIN <<e>> : i = 1 /\ <<e>>[i].metric = m
      BY <1>2, <1>7
    <2>3. Ranked(<<e>>, k, k)
      BY <1>1, <1>5, <2>2 DEF Ranked
    <2> QED
      BY <2>1, <2>3
  <1>8. ASSUME NEW x \in ToldValues
        PROVE  Account(<<Value(m, x)>>, <<>>, k, k)
    <2>0. Value(m, x) \in ValueEntry /\ Value(m, x).metric = m
      BY DEF Value, ValueEntry
    <2>1. PICK e \in ValueEntry : e = Value(m, x) /\ e.metric = m
      BY <2>0
    <2>2. <<e>> \in Seq(ValueEntry)
      OBVIOUS
    <2> QED
      BY <1>1, <1>3, <1>5, <1>6, <1>7, <2>1, <2>2 DEF Account
  <1>9. ASSUME NEW x \in Reasons
        PROVE  Account(<<>>, <<Omission(m, x)>>, k, k)
    <2>0. Omission(m, x) \in OmissionEntry /\ Omission(m, x).metric = m
      BY DEF Omission, OmissionEntry
    <2>1. PICK e \in OmissionEntry : e = Omission(m, x) /\ e.metric = m
      BY <2>0
    <2>2. <<e>> \in Seq(OmissionEntry)
      OBVIOUS
    <2> QED
      BY <1>1, <1>3, <1>5, <1>6, <1>7, <2>1, <2>2 DEF Account
  <1> QED
    BY <1>1, <1>2, <1>8, <1>9

LEMMA ShortJoins ==
  /\ \A x, y : <<x>> \o <<y>> = <<x, y>>
  /\ \A x, y, z : <<x, y>> \o <<z>> = Append(<<x, y>>, z)
  /\ <<>> \o <<>> = <<>>
  <1>1. ASSUME NEW x, NEW y PROVE <<x>> \o <<y>> = <<x, y>>
    <2>1. <<x>> \o <<y>> = Append(<<x>>, y)
      OBVIOUS
    <2>2. <<x, y>> = Append(<<x>>, y)
      OBVIOUS
    <2> QED
      BY <2>1, <2>2, Zenon
  <1>2. ASSUME NEW x, NEW y, NEW z PROVE <<x, y>> \o <<z>> = Append(<<x, y>>, z)
    OBVIOUS
  <1>3. <<>> \o <<>> = <<>>
    OBVIOUS
  <1> QED
    BY <1>1, <1>2, <1>3, Zenon

\* The three metrics of the sweep.
LEMMA SweepPart ==
  ASSUME NEW frequencies \in Seq(Number), NEW s11 \in Seq(Sample),
         SeriesIsUsable(frequencies, s11)
  PROVE  LET sweep == SweepValues(frequencies, s11)
             r == ResonanceIndex(s11)
         IN /\ Account(sweep.values, sweep.omissions, 1, 3)
            /\ Value("resonant_frequency", Hz(frequencies[r])) \in ToSet(sweep.values)
            /\ IF AtMostMinus10dB(s11[r])
               THEN \E low \in 1..r, high \in r..Len(s11) :
                      /\ DeepFrom(low, s11, r) /\ DeepTo(high, s11, r, Len(s11))
                      /\ Value("minus_10db_bandwidth", Hz(frequencies[high] - frequencies[low]))
                           \in ToSet(sweep.values)
               ELSE Omission("minus_10db_bandwidth", "no band") \in ToSet(sweep.omissions)
  <1> DEFINE sweep == SweepValues(frequencies, s11)
             r == ResonanceIndex(s11)
             band == Minus10dBBandwidth(frequencies, s11)
  <1>1. PICK least \in ToldValues, at \in ToldValues :
          /\ least = S11Min(s11)
          /\ at = Hz(frequencies[r]) /\ at = Hz(ResonantFrequency(frequencies, s11))
    BY LevelsAreCarried DEF ToldValues
  <1>2. PICK first, second :
          /\ first = Value("s11_min", least) /\ second = Value("resonant_frequency", at)
    OBVIOUS
  <1>3. /\ Account(<<first>>, <<>>, 1, 1) /\ ToSet(<<first>>) = {first}
        /\ Account(<<second>>, <<>>, 2, 2) /\ ToSet(<<second>>) = {second}
    <2>1. 1 \in 1..7 /\ 2 \in 1..7
          /\ MetricOrder[1] = "s11_min" /\ MetricOrder[2] = "resonant_frequency"
      BY DEF MetricOrder
    <2> QED
      BY <1>2, <2>1, SinglePart
  <1>4. Account(<<first, second>>, <<>>, 1, 2) /\ ToSet(<<first, second>>) = {first, second}
    <2>1. 1 \in Nat /\ 2 \in Nat /\ 1 + 1 = 2 /\ 1 <= 1 /\ 1 <= 2
      OBVIOUS
    <2>2. PICK a, b, none : a = <<first>> /\ b = <<second>> /\ none = <<>>
      OBVIOUS
    <2>3. Account(a, none, 1, 1) /\ Account(b, none, 2, 2)
          /\ a \in Seq(ValueEntry) /\ b \in Seq(ValueEntry) /\ none \in Seq(OmissionEntry)
      BY <1>3, <2>2 DEF Account
    <2>4. /\ Account(a \o b, none \o none, 1, 2)
          /\ ToSet(a \o b) = ToSet(a) \cup ToSet(b)
      BY <2>1, <2>3, PartsJoin
    <2>5. a \o b = <<first, second>> /\ none \o none = <<>>
      BY <2>2, ShortJoins
    <2> QED
      BY <1>3, <2>2, <2>4, <2>5
  <1>5. 1 \in Nat /\ 2 \in Nat /\ 3 \in Nat /\ 2 + 1 = 3 /\ 1 <= 2 /\ 2 <= 3
        /\ 3 \in 1..7 /\ MetricOrder[3] = "minus_10db_bandwidth"
    BY DEF MetricOrder
  <1>6. sweep = IF band = NoBand
                THEN [values |-> <<first, second>>,
                      omissions |-> <<Omission("minus_10db_bandwidth", "no band")>>]
                ELSE [values |-> Append(<<first, second>>,
                                        Value("minus_10db_bandwidth", Hz(band.width))),
                      omissions |-> <<>>]
    BY <1>1, <1>2 DEF SweepValues, NoOmission
  <1> HIDE DEF sweep, band
  <1>7. CASE AtMostMinus10dB(s11[r])
    <2>1. /\ band # NoBand
          /\ Hz(band.width) \in ToldValues
          /\ \E low \in 1..r, high \in r..Len(s11) :
               /\ DeepFrom(low, s11, r) /\ DeepTo(high, s11, r, Len(s11))
               /\ band.width = frequencies[high] - frequencies[low]
      BY <1>7, BandIsTheRun DEF band, ToldValues
    <2>2. PICK third : third = Value("minus_10db_bandwidth", Hz(band.width))
      OBVIOUS
    <2>3. Account(<<third>>, <<>>, 3, 3) /\ ToSet(<<third>>) = {third}
      BY <1>5, <2>1, <2>2, SinglePart
    <2>4. PICK a, b, none : a = <<first, second>> /\ b = <<third>> /\ none = <<>>
      OBVIOUS
    <2>5. Account(a, none, 1, 2) /\ Account(b, none, 3, 3)
          /\ a \in Seq(ValueEntry) /\ b \in Seq(ValueEntry) /\ none \in Seq(OmissionEntry)
      BY <1>4, <2>3, <2>4 DEF Account
    <2>6. /\ Account(a \o b, none \o none, 1, 3)
          /\ ToSet(a \o b) = ToSet(a) \cup ToSet(b)
      BY <1>5, <2>5, PartsJoin
    <2>7. sweep.values = a \o b /\ sweep.omissions = none \o none
      <3>1. sweep.values = Append(<<first, second>>, third) /\ sweep.omissions = <<>>
        BY <1>6, <2>1, <2>2
      <3>2. <<first, second>> \o <<third>> = a \o b /\ <<>> \o <<>> = none \o none
        BY <2>4
      <3> QED
        <4>1. <<first, second>> \o <<third>> = Append(<<first, second>>, third)
              /\ <<>> \o <<>> = <<>>
          BY ShortJoins, Zenon
        <4> QED
          BY <3>1, <3>2, <4>1, Zenon
    <2>8. Account(sweep.values, sweep.omissions, 1, 3) /\ second \in ToSet(sweep.values)
          /\ third \in ToSet(sweep.values)
      BY <1>4, <2>3, <2>4, <2>6, <2>7
    <2> QED
      BY <1>1, <1>2, <1>7, <2>1, <2>2, <2>8 DEF sweep
  <1>8. CASE ~ AtMostMinus10dB(s11[r])
    <2>1. band = NoBand
      BY <1>8, BandIsTheRun DEF band
    <2>2. PICK o : o = Omission("minus_10db_bandwidth", "no band")
      OBVIOUS
    <2>3. Account(<<>>, <<o>>, 3, 3) /\ ToSet(<<o>>) = {o}
      BY <1>5, <2>2, SinglePart DEF Reasons
    <2>4. PICK a, none, q : a = <<first, second>> /\ none = <<>> /\ q = <<o>>
      OBVIOUS
    <2>5. /\ Account(a, none, 1, 2) /\ Account(none, q, 3, 3)
          /\ a \in Seq(ValueEntry) /\ none \in Seq(ValueEntry)
          /\ none \in Seq(OmissionEntry) /\ q \in Seq(OmissionEntry)
      BY <1>4, <2>3, <2>4 DEF Account
    <2>6. Account(a \o none, none \o q, 1, 3)
      BY <1>5, <2>5, PartsJoin
    <2>7. a \o none = a /\ none \o q = q
      BY <2>4, <2>5
    <2>8. sweep.values = a /\ sweep.omissions = q
      BY <1>6, <2>1, <2>2, <2>4
    <2>9. /\ Account(sweep.values, sweep.omissions, 1, 3) /\ second \in ToSet(sweep.values)
          /\ o \in ToSet(sweep.omissions)
      BY <1>4, <2>3, <2>4, <2>6, <2>7, <2>8
    <2> QED
      BY <1>1, <1>2, <1>8, <2>2, <2>9 DEF sweep
  <1> QED
    BY <1>7, <1>8

\* A resistance that a record can carry, and whose sign is not that of Z0.
Opposes(e, z0) ==
  /\ e.metric = "impedance_at_target_resistance"
  /\ Finite(e.value) /\ e.value.num * z0 < 0

LEMMA SignOfScaled ==
  ASSUME NEW z \in Int, z # 0, NEW x \in Int
  PROVE  (z * x) * z < 0 <=> x < 0
  <1>1. PICK square \in Int : square = z * z
    OBVIOUS
  <1>2. square > 0
    BY <1>1
  <1>3. (z * x) * z = square * x
    BY <1>1
  <1>4. x < 0 => square * x < 0
    BY <1>2
  <1>5. x >= 0 => square * x >= 0
    BY <1>2
  <1> QED
    BY <1>3, <1>4, <1>5

\* The three formulas at a target; a ratio has no number exactly when the
\* resistance beside it has the other sign than Z0, and a Z0 that is not finite
\* leaves no finite impedance.
LEMMA TargetPart ==
  ASSUME NEW frequencies \in Seq(Number), NEW s11 \in Seq(Sample), NEW target \in Number,
         NEW z0 \in Number, TargetIsUsable(frequencies, s11, target)
  PROVE  LET ratio == VswrPart(frequencies, s11, target)
             impedance == ImpedancePart(frequencies, s11, target, z0)
         IN /\ S11AtTarget(frequencies, s11, target) \in ToldValues
            /\ Account(ratio.values, ratio.omissions, 5, 5)
            /\ Account(impedance.values, impedance.omissions, 6, 7)
            /\ Finite(z0) /\ z0 # 0 =>
                 \/ /\ Omission("vswr_at_target", "non-physical") \in ToSet(ratio.omissions)
                    /\ \E e \in ToSet(impedance.values) : Opposes(e, z0)
                 \/ /\ "vswr_at_target" \in MetricsIn(ratio.values)
                    /\ \A e \in ToSet(impedance.values) : ~ Opposes(e, z0)
            /\ ~ Finite(z0) => \A e \in ToSet(impedance.values) : ~ Finite(e.value)
  <1> DEFINE g == InterpolatedGamma(frequencies, s11, target)
             ratio == VswrPart(frequencies, s11, target)
             impedance == ImpedancePart(frequencies, s11, target, z0)
  <1>1. g \in Coefficient
    BY InterpolatedIsWhole
  <1>2. PICK re \in Int, im \in Int, den \in Int : g = [re |-> re, im |-> im, den |-> den]
    BY <1>1 DEF Coefficient
  <1>3. PICK m \in Int, one \in Int, rest \in Int :
          m = re * re + im * im /\ one = den * den /\ rest = den - re
    OBVIOUS
  <1>4. Magnitude(g) = m /\ g.den * g.den = one /\ g.den - g.re = rest
    BY <1>2, <1>3 DEF Magnitude
  <1>5. rest = 0 /\ im = 0 => m = one
    BY <1>3
  <1> HIDE DEF g, ratio, impedance
  <1>6. S11AtTarget(frequencies, s11, target) \in ToldValues
    <2>1. S11AtTarget(frequencies, s11, target) =
            IF m = 0 THEN NegInf ELSE [num |-> m, den |-> one]
      BY <1>4 DEF S11AtTarget, Decibels, g
    <2>2. [num |-> m, den |-> one] \in Carried
      BY DEF Carried
    <2> QED
      BY <2>1, <2>2 DEF ToldValues
  <1>7. 5 \in 1..7 /\ 6 \in 1..7 /\ 7 \in 1..7
        /\ MetricOrder[5] = "vswr_at_target"
        /\ MetricOrder[6] = "impedance_at_target_resistance"
        /\ MetricOrder[7] = "impedance_at_target_reactance"
    BY DEF MetricOrder
  <1>8. /\ Account(ratio.values, ratio.omissions, 5, 5)
        /\ m > one => Omission("vswr_at_target", "non-physical") \in ToSet(ratio.omissions)
        /\ ~ (m > one) => "vswr_at_target" \in MetricsIn(ratio.values)
    <2>1. VswrAtTarget(frequencies, s11, target) =
            IF m > one THEN ValueError ELSE IF m = one THEN PosInf ELSE [vswr_of |-> g]
      BY <1>4 DEF VswrAtTarget, g
    <2>2. [vswr_of |-> g] \in Carried
      BY <1>1 DEF Carried
    <2>3. PosInf \in ToldValues /\ [vswr_of |-> g] \in ToldValues
      BY <2>2 DEF ToldValues
    <2>4. PosInf # ValueError /\ [vswr_of |-> g] # ValueError
      BY <2>2, CarriedIsFinite DEF NonFinite
    <2>5. CASE m > one
      <3>1. PICK o : o = Omission("vswr_at_target", "non-physical")
        OBVIOUS
      <3>2. Account(<<>>, <<o>>, 5, 5) /\ ToSet(<<o>>) = {o}
        BY <1>7, <3>1, SinglePart DEF Reasons
      <3>3. ratio = [values |-> <<>>, omissions |-> <<o>>]
        BY <2>1, <2>5, <3>1 DEF ratio, VswrPart
      <3> QED
        BY <2>5, <3>1, <3>2, <3>3
    <2>6. CASE ~ (m > one)
      <3>1. PICK x \in ToldValues : x = VswrAtTarget(frequencies, s11, target) /\ x # ValueError
        BY <2>1, <2>3, <2>4, <2>6
      <3>2. PICK e : e = Value("vswr_at_target", x)
        OBVIOUS
      <3>3. Account(<<e>>, <<>>, 5, 5) /\ ToSet(<<e>>) = {e}
        BY <1>7, <3>2, SinglePart
      <3>4. ratio = [values |-> <<e>>, omissions |-> <<>>]
        BY <3>1, <3>2 DEF ratio, VswrPart, NoOmission
      <3> QED
        BY <2>6, <3>2, <3>3, <3>4 DEF MetricsIn, Value
    <2> QED
      BY <2>5, <2>6
  <1>9. 6 \in Nat /\ 7 \in Nat /\ 6 + 1 = 7 /\ 6 <= 6 /\ 6 <= 7
    OBVIOUS
  <1>10. SubSeq(MetricOrder, 6, 7)[1] = "impedance_at_target_resistance"
         /\ SubSeq(MetricOrder, 6, 7)[2] = "impedance_at_target_reactance"
    BY DEF MetricOrder
  <1>11. PICK x \in Int, y \in Int, d \in Int :
            x = one - m /\ y = 2 * im * den /\ d = rest * rest + im * im
    <2>1. one - m \in Int /\ 2 * im * den \in Int /\ rest * rest + im * im \in Int
      OBVIOUS
    <2> QED
      BY <2>1
  <1> DEFINE resistance == Ohms(z0, x, d)
             reactance == Ohms(z0, y, d)
             unbounded == rest = 0 /\ im = 0
  <1>17. ImpedanceAtTarget(frequencies, s11, target, z0) =
           IF unbounded THEN ValueError ELSE [re |-> resistance, im |-> reactance]
    <2>1. ImpedanceAtTarget(frequencies, s11, target, z0) =
            IF g.den - g.re = 0 /\ g.im = 0 THEN ValueError
            ELSE [re |-> Ohms(z0, g.den * g.den - Magnitude(g),
                              (g.den - g.re) * (g.den - g.re) + g.im * g.im),
                  im |-> Ohms(z0, 2 * g.im * g.den,
                              (g.den - g.re) * (g.den - g.re) + g.im * g.im)]
      BY Zenon DEF ImpedanceAtTarget, g
    <2>2. g.im = im /\ g.den = den /\ g.den - g.re = rest
          /\ g.den * g.den - Magnitude(g) = one - m
      BY <1>2, <1>4
    <2>3. ImpedanceAtTarget(frequencies, s11, target, z0) =
            IF unbounded THEN ValueError
            ELSE [re |-> Ohms(z0, one - m, rest * rest + im * im),
                  im |-> Ohms(z0, 2 * im * den, rest * rest + im * im)]
      BY <2>1, <2>2, Zenon
    <2> QED
      BY <1>11, <2>3, Zenon
  <1>18. /\ resistance \in Fraction \cup {NaN} /\ reactance \in Fraction \cup {NaN}
         /\ Finite(z0) => resistance \in Carried /\ resistance.num = z0 * x
         /\ ~ Finite(z0) => ~ Finite(resistance) /\ ~ Finite(reactance)
    <2>1. CASE Finite(z0)
      <3>1. z0 \in Int
        BY <2>1 DEF Finite, Number
      <3>2. PICK u \in Int, v \in Int : u = z0 * x /\ v = z0 * y
        BY <3>1
      <3>3. resistance = [num |-> u, den |-> d] /\ reactance = [num |-> v, den |-> d]
        BY <2>1, <3>2 DEF Ohms
      <3> HIDE DEF resistance, reactance
      <3> QED
        BY <2>1, <3>2, <3>3 DEF Fraction, Carried
    <2>2. CASE ~ Finite(z0)
      BY <2>2 DEF Ohms, Finite, NonFinite
    <2> QED
      BY <2>1, <2>2
  <1> HIDE DEF resistance, reactance, unbounded
  <1>12. /\ Account(impedance.values, impedance.omissions, 6, 7)
         /\ unbounded => ToSet(impedance.values) = {}
         /\ ~ unbounded =>
              ToSet(impedance.values) =
                {Value("impedance_at_target_resistance", resistance),
                 Value("impedance_at_target_reactance", reactance)}
    <2>1. CASE unbounded
      <3>1. PICK o, q : /\ o = Omission("impedance_at_target_resistance", "unbounded")
                        /\ q = Omission("impedance_at_target_reactance", "unbounded")
        OBVIOUS
      <3>2. Account(<<>>, <<o>>, 6, 6) /\ Account(<<>>, <<q>>, 7, 7)
        BY <1>7, <3>1, SinglePart DEF Reasons
      <3>3. Account(<<>>, <<o, q>>, 6, 7)
        <4>1. PICK none, a, b : none = <<>> /\ a = <<o>> /\ b = <<q>>
          OBVIOUS
        <4>2. /\ Account(none, a, 6, 6) /\ Account(none, b, 7, 7)
              /\ none \in Seq(ValueEntry) /\ a \in Seq(OmissionEntry)
              /\ b \in Seq(OmissionEntry)
          BY <3>2, <4>1 DEF Account
        <4>3. Account(none \o none, a \o b, 6, 7)
          BY <1>9, <4>2, PartsJoin
        <4>4. none \o none = <<>> /\ a \o b = <<o, q>>
          BY <4>1, ShortJoins
        <4> QED
          BY <4>3, <4>4
      <3>5. [i \in 1..2 |-> Omission(SubSeq(MetricOrder, 6, 7)[i], "unbounded")] = <<o, q>>
        <4> DEFINE f == [i \in 1..2 |-> Omission(SubSeq(MetricOrder, 6, 7)[i], "unbounded")]
        <4>1. f[1] = o /\ f[2] = q
          BY <1>10, <3>1
        <4>2. f = [i \in 1..2 |-> f[i]]
          OBVIOUS
        <4> HIDE DEF f
        <4>3. <<o, q>> = [i \in 1..2 |-> <<o, q>>[i]]
          OBVIOUS
        <4>4. \A i \in 1..2 : f[i] = <<o, q>>[i]
          BY <4>1
        <4>5. f = <<o, q>>
          BY <4>2, <4>3, <4>4
        <4> QED
          BY <4>5 DEF f
      <3>6. impedance = [values |-> <<>>, omissions |-> <<o, q>>]
        BY <1>17, <2>1, <3>5 DEF impedance, ImpedancePart
      <3>7. ToSet(<<>>) = {}
        BY DEF ToSet
      <3> QED
        BY <2>1, <3>3, <3>6, <3>7
    <2>2. CASE ~ unbounded
      <3>1. PICK z : /\ z = ImpedanceAtTarget(frequencies, s11, target, z0)
                     /\ z # ValueError /\ z.re = resistance /\ z.im = reactance
        BY <1>17, <1>18, <2>2, CarriedIsFinite
      <3>4. PICK e, h :
              /\ e = Value("impedance_at_target_resistance", resistance)
              /\ h = Value("impedance_at_target_reactance", reactance)
        OBVIOUS
      <3>5. resistance \in ToldValues /\ reactance \in ToldValues
        BY <1>18 DEF ToldValues, Carried, Fraction
      <3>6. /\ Account(<<e>>, <<>>, 6, 6) /\ ToSet(<<e>>) = {e}
            /\ Account(<<h>>, <<>>, 7, 7) /\ ToSet(<<h>>) = {h}
        BY <1>7, <3>4, <3>5, SinglePart
      <3>7. PICK a, b, none : a = <<e>> /\ b = <<h>> /\ none = <<>>
        OBVIOUS
      <3>8. /\ Account(a \o b, none \o none, 6, 7)
            /\ ToSet(a \o b) = ToSet(a) \cup ToSet(b)
        <4>1. Account(a, none, 6, 6) /\ Account(b, none, 7, 7)
              /\ a \in Seq(ValueEntry) /\ b \in Seq(ValueEntry) /\ none \in Seq(OmissionEntry)
          BY <3>6, <3>7 DEF Account
        <4> QED
          BY <1>9, <4>1, PartsJoin
      <3>9. impedance = [values |-> a \o b, omissions |-> none \o none]
        <4>3. impedance =
                [values |-> <<Value("impedance_at_target_resistance", resistance),
                              Value("impedance_at_target_reactance", reactance)>>,
                 omissions |-> <<>>]
          BY <1>10, <3>1, Zenon DEF impedance, ImpedancePart, NoOmission
        <4>4. impedance = [values |-> <<e, h>>, omissions |-> <<>>]
          BY <3>4, <4>3
        <4>5. none \o none = <<>> /\ a \o b = <<e, h>>
          BY <3>7, ShortJoins
        <4> QED
          BY <4>4, <4>5
      <3> QED
        BY <2>2, <3>4, <3>6, <3>7, <3>8, <3>9
    <2> QED
      BY <2>1, <2>2
  <1>13. x < 0 <=> m > one
    BY <1>11
  <1>16. ~ Finite(z0) => \A e \in ToSet(impedance.values) : ~ Finite(e.value)
    BY <1>12, <1>18 DEF Value
  <1>19. ASSUME Finite(z0), z0 # 0
         PROVE  /\ x < 0 /\ ~ unbounded => \E e \in ToSet(impedance.values) : Opposes(e, z0)
                /\ ~ (x < 0) => \A e \in ToSet(impedance.values) : ~ Opposes(e, z0)
    <2>1. PICK e, h : /\ e = Value("impedance_at_target_resistance", resistance)
                      /\ h = Value("impedance_at_target_reactance", reactance)
      OBVIOUS
    <2>2. e.metric = "impedance_at_target_resistance" /\ e.value = resistance
          /\ h.metric = "impedance_at_target_reactance"
      BY <2>1 DEF Value
    <2>3. z0 \in Int
      BY <1>19 DEF Finite, Number
    <2>4. Finite(resistance) /\ (resistance.num * z0 < 0 <=> x < 0)
      BY <1>18, <1>19, <2>3, SignOfScaled, CarriedIsFinite
    <2>5. Opposes(e, z0) <=> x < 0
      BY <2>2, <2>4 DEF Opposes
    <2>6. ~ Opposes(h, z0)
      BY <2>2 DEF Opposes
    <2> QED
      BY <1>12, <2>1, <2>5, <2>6
  <1>14. CASE m > one
    <2>1. ~ unbounded
      BY <1>5, <1>14 DEF unbounded
    <2> QED
      BY <1>6, <1>8, <1>12, <1>13, <1>14, <1>16, <1>19, <2>1 DEF ratio, impedance
  <1>15. CASE ~ (m > one)
    BY <1>6, <1>8, <1>12, <1>13, <1>15, <1>16, <1>19 DEF ratio, impedance
  <1> QED
    BY <1>14, <1>15

LEMMA AtTargetAreTheLast ==
  /\ DOMAIN AtTargetMetrics = 1..4
  /\ \A i \in 1..4 : AtTargetMetrics[i] = MetricOrder[i + 3]
  <1>1. \A i \in 1..4 : i = 1 \/ i = 2 \/ i = 3 \/ i = 4
    OBVIOUS
  <1>2. /\ DOMAIN AtTargetMetrics = 1..4
        /\ AtTargetMetrics[1] = MetricOrder[1 + 3]
        /\ AtTargetMetrics[2] = MetricOrder[2 + 3]
        /\ AtTargetMetrics[3] = MetricOrder[3 + 3]
        /\ AtTargetMetrics[4] = MetricOrder[4 + 3]
    BY DEF AtTargetMetrics, MetricOrder
  <1> QED
    BY <1>1, <1>2

\* Without an intent, the four metrics of the target are omissions.
NoIntentOmissions == [i \in 1..4 |-> Omission(AtTargetMetrics[i], "no intent")]

LEMMA NoIntentPart ==
  /\ Account(<<>>, NoIntentOmissions, 4, 7)
  /\ \A k \in 4..7 : Omission(MetricOrder[k], "no intent") \in ToSet(NoIntentOmissions)
  <1>1. \A i \in 1..4 : AtTargetMetrics[i] = MetricOrder[i + 3]
    BY AtTargetAreTheLast
  <1> DEFINE o == NoIntentOmissions
  <1>2. DOMAIN o = 1..4
    BY DEF NoIntentOmissions
  <1>3. ASSUME NEW i \in 1..4
        PROVE  /\ o[i] = Omission(MetricOrder[i + 3], "no intent")
               /\ o[i] \in OmissionEntry
               /\ o[i].metric = MetricOrder[i + 3]
               /\ o[i].metric \in MetricNames /\ Rank(o[i].metric) = i + 3
    <2>1. o[i] = Omission(MetricOrder[i + 3], "no intent")
      BY <1>1 DEF NoIntentOmissions
    <2>2. i + 3 \in 1..7
      OBVIOUS
    <2>3. MetricOrder[i + 3] \in MetricNames /\ Rank(MetricOrder[i + 3]) = i + 3
      BY <2>2, RanksOfMetrics
    <2>4. PICK m \in MetricNames : m = MetricOrder[i + 3] /\ Rank(m) = i + 3
      BY <2>3
    <2>5. o[i] = Omission(m, "no intent")
      BY <2>1, <2>4
    <2>6. /\ Omission(m, "no intent") \in OmissionEntry
          /\ Omission(m, "no intent").metric = m
      BY DEF Omission, OmissionEntry, Reasons
    <2> HIDE DEF o
    <2> QED
      BY <2>4, <2>5, <2>6
  <1>4. o \in Seq(OmissionEntry)
    <2>1. o \in [1..4 -> OmissionEntry]
      BY <1>3 DEF NoIntentOmissions
    <2> HIDE DEF o
    <2>2. PICK n \in Nat : n = 4
      OBVIOUS
    <2>3. o \in [1..n -> OmissionEntry]
      BY <2>1, <2>2
    <2> QED
      BY <2>3
  <1> HIDE DEF o
  <1>5. Ranked(o, 4, 7)
    <2>1. \A i \in 1..4 : o[i].metric \in MetricNames /\ Rank(o[i].metric) = i + 3
      BY <1>3
    <2> QED
      BY <1>2, <2>1 DEF Ranked
  <1>6. \A k \in 4..7 : Omission(MetricOrder[k], "no intent") \in ToSet(o)
                        /\ MetricOrder[k] \in MetricsIn(o)
    <2> TAKE k \in 4..7
    <2>1. k - 3 \in 1..4 /\ (k - 3) + 3 = k
      OBVIOUS
    <2>2. o[k - 3] \in ToSet(o)
      BY <1>2, <2>1 DEF ToSet
    <2> QED
      BY <1>3, <2>1, <2>2 DEF MetricsIn
  <1>7. MetricsIn(<<>>) = {} /\ <<>> \in Seq(ValueEntry) /\ Ranked(<<>>, 4, 7)
    BY DEF MetricsIn, ToSet, Ranked
  <1>8. Account(<<>>, o, 4, 7)
    BY <1>4, <1>5, <1>6, <1>7 DEF Account
  <1> QED
    BY <1>6, <1>8 DEF o

ImpedanceMetrics == {"impedance_at_target_resistance", "impedance_at_target_reactance"}

\* What is computed accounts for every metric once.
LEMMA ComputedIsWhole ==
  ASSUME NEW frequencies \in Seq(Number), NEW s11 \in Seq(Sample),
         NEW intent \in Number \cup {None}, NEW z0 \in Number,
         ~ PreconditionFails(frequencies, s11, intent)
  PROVE  LET made == ComputedValues(frequencies, s11, intent, z0)
             sweep == SweepValues(frequencies, s11)
         IN /\ Account(made.values, made.omissions, 1, 7)
            /\ ToSet(sweep.values) \subseteq ToSet(made.values)
            /\ ToSet(sweep.omissions) \subseteq ToSet(made.omissions)
            /\ intent = None =>
                 \A k \in 4..7 :
                   Omission(MetricOrder[k], "no intent") \in ToSet(made.omissions)
            /\ Finite(z0) /\ z0 # 0 =>
                 (Omission("vswr_at_target", "non-physical") \in ToSet(made.omissions)
                    <=> \E e \in ToSet(made.values) : Opposes(e, z0))
            /\ ~ Finite(z0) => \A e \in ToSet(made.values) :
                 e.metric \in ImpedanceMetrics => ~ Finite(e.value)
  <1> DEFINE made == ComputedValues(frequencies, s11, intent, z0)
             sweep == SweepValues(frequencies, s11)
             ratio == VswrPart(frequencies, s11, intent)
             impedance == ImpedancePart(frequencies, s11, intent, z0)
             level == <<Value("s11_at_target", S11AtTarget(frequencies, s11, intent))>>
  <1>1. SeriesIsUsable(frequencies, s11)
        /\ (intent # None => TargetIsUsable(frequencies, s11, intent))
    BY DEF PreconditionFails
  <1>2. Account(sweep.values, sweep.omissions, 1, 3)
    BY <1>1, SweepPart
  <1>3. sweep.values \in Seq(ValueEntry) /\ sweep.omissions \in Seq(OmissionEntry)
    BY <1>2 DEF Account
  <1>4. made = IF intent = None
               THEN [values |-> sweep.values,
                     omissions |-> sweep.omissions \o NoIntentOmissions]
               ELSE [values |-> sweep.values \o level \o ratio.values \o impedance.values,
                     omissions |-> sweep.omissions \o ratio.omissions
                                     \o impedance.omissions]
    BY DEF ComputedValues, NoIntentOmissions
  <1>5. /\ 4 \in 1..7 /\ 5 \in 1..7 /\ 6 \in 1..7 /\ 7 \in 1..7
        /\ MetricOrder[4] = "s11_at_target" /\ MetricOrder[5] = "vswr_at_target"
        /\ MetricOrder[6] = "impedance_at_target_resistance"
        /\ MetricOrder[7] = "impedance_at_target_reactance"
    BY DEF MetricOrder
  <1>6. Rank("vswr_at_target") = 5 /\ \A m \in ImpedanceMetrics : Rank(m) \in 6..7
    BY <1>5, RanksOfMetrics DEF ImpedanceMetrics
  <1> HIDE DEF made, sweep, ratio, impedance, level
  <1>7. CASE intent = None
    <2>1. PICK a, o, none, q :
            /\ a = sweep.values /\ o = sweep.omissions
            /\ none = <<>> /\ q = NoIntentOmissions
            /\ Account(a, o, 1, 3) /\ Account(none, q, 4, 7)
            /\ a \in Seq(ValueEntry) /\ o \in Seq(OmissionEntry)
            /\ none \in Seq(ValueEntry) /\ q \in Seq(OmissionEntry)
      BY <1>2, NoIntentPart DEF Account
    <2>2. /\ Account(a \o none, o \o q, 1, 7)
          /\ ToSet(o \o q) = ToSet(o) \cup ToSet(q)
      <3>1. /\ Account(a, o, 1, 3) /\ Account(none, q, 4, 7)
            /\ a \in Seq(ValueEntry) /\ o \in Seq(OmissionEntry)
            /\ none \in Seq(ValueEntry) /\ q \in Seq(OmissionEntry)
        BY <2>1
      <3>2. 1 \in Nat /\ 3 \in Nat /\ 7 \in Nat /\ 1 <= 3 /\ 3 <= 7 /\ 4 = 3 + 1
        OBVIOUS
      <3> QED
        BY <3>1, <3>2, PartsJoin
    <2>3. a \o none = a
      BY <2>1
    <2>4. /\ made.values = sweep.values
          /\ made.omissions = sweep.omissions \o NoIntentOmissions
      BY <1>4, <1>7
    <2>5. /\ Account(made.values, made.omissions, 1, 7)
          /\ ToSet(made.omissions) = ToSet(sweep.omissions) \cup ToSet(NoIntentOmissions)
      BY <2>1, <2>2, <2>3, <2>4
    <2>6. \A k \in 4..7 : Omission(MetricOrder[k], "no intent") \in ToSet(made.omissions)
      BY <2>5, NoIntentPart
    <2>7. Omission("vswr_at_target", "non-physical") \notin ToSet(made.omissions)
      <3>1. Omission("vswr_at_target", "no intent") \in ToSet(made.omissions)
        <4>1. 5 \in 4..7
          OBVIOUS
        <4> QED
          BY <1>5, <2>6, <4>1
      <3>2. \A reason : Omission("vswr_at_target", reason).metric = "vswr_at_target"
                        /\ Omission("vswr_at_target", reason).reason = reason
        BY DEF Omission
      <3>3. Ranked(made.omissions, 1, 7) /\ made.omissions \in Seq(OmissionEntry)
        BY <2>5 DEF Account
      <3>4. ASSUME Omission("vswr_at_target", "non-physical") \in ToSet(made.omissions)
            PROVE  FALSE
        <4>1. PICK x, y : /\ x = Omission("vswr_at_target", "non-physical")
                          /\ y = Omission("vswr_at_target", "no intent")
          OBVIOUS
        <4>2. /\ x.metric = "vswr_at_target" /\ y.metric = "vswr_at_target"
              /\ x.reason = "non-physical" /\ y.reason = "no intent"
          BY <4>1 DEF Omission
        <4>3. x \in ToSet(made.omissions) /\ y \in ToSet(made.omissions)
          BY <3>1, <3>4, <4>1
        <4>4. x = y
          <5>1. x.metric = y.metric
            BY <4>2
          <5> QED
            BY <3>3, <4>3, <5>1, RankedOnce
        <4> QED
          BY <4>2, <4>4
      <3> QED
        BY <3>4
    <2>8. \A e \in ToSet(made.values) : e.metric \notin ImpedanceMetrics
      <3>1. ImpedanceMetrics \subseteq MetricsIn(made.omissions)
        <4>1. 6 \in 4..7 /\ 7 \in 4..7
          OBVIOUS
        <4>2. \A m \in ImpedanceMetrics : Omission(m, "no intent") \in ToSet(made.omissions)
          BY <1>5, <2>6, <4>1 DEF ImpedanceMetrics
        <4>3. \A m : Omission(m, "no intent").metric = m
          BY DEF Omission
        <4> QED
          BY <4>2, <4>3 DEF MetricsIn
      <3>2. MetricsIn(made.values) \cap MetricsIn(made.omissions) = {}
        BY <2>5 DEF Account
      <3> QED
        BY <3>1, <3>2 DEF MetricsIn
    <2>9. \A e \in ToSet(made.values) : ~ Opposes(e, z0)
      BY <2>8 DEF Opposes, ImpedanceMetrics
    <2> QED
      BY <1>7, <2>4, <2>5, <2>6, <2>7, <2>8, <2>9 DEF made, sweep
  <1>8. CASE intent # None
    <2>1. intent \in Number /\ TargetIsUsable(frequencies, s11, intent)
      BY <1>1, <1>8
    <2>2. /\ S11AtTarget(frequencies, s11, intent) \in ToldValues
          /\ Account(ratio.values, ratio.omissions, 5, 5)
          /\ Account(impedance.values, impedance.omissions, 6, 7)
          /\ Finite(z0) /\ z0 # 0 =>
               \/ /\ Omission("vswr_at_target", "non-physical") \in ToSet(ratio.omissions)
                  /\ \E e \in ToSet(impedance.values) : Opposes(e, z0)
               \/ /\ "vswr_at_target" \in MetricsIn(ratio.values)
                  /\ \A e \in ToSet(impedance.values) : ~ Opposes(e, z0)
          /\ ~ Finite(z0) => \A e \in ToSet(impedance.values) : ~ Finite(e.value)
      BY <2>1, TargetPart DEF ratio, impedance
    <2>3. Account(level, <<>>, 4, 4)
      BY <1>5, <2>2, SinglePart DEF level
    <2>4. PICK v, o :
            /\ v = sweep.values \o level /\ o = sweep.omissions
            /\ Account(v, o, 1, 4)
            /\ ToSet(v) = ToSet(sweep.values) \cup ToSet(level)
      <3>1. PICK a, b, o, none :
              /\ a = sweep.values /\ b = level /\ o = sweep.omissions /\ none = <<>>
              /\ Account(a, o, 1, 3) /\ Account(b, none, 4, 4)
              /\ a \in Seq(ValueEntry) /\ b \in Seq(ValueEntry)
              /\ o \in Seq(OmissionEntry) /\ none \in Seq(OmissionEntry)
        BY <1>2, <2>3 DEF Account
      <3>2. /\ Account(a \o b, o \o none, 1, 4)
            /\ ToSet(a \o b) = ToSet(a) \cup ToSet(b)
        <4>1. /\ Account(a, o, 1, 3) /\ Account(b, none, 4, 4)
              /\ a \in Seq(ValueEntry) /\ b \in Seq(ValueEntry)
              /\ o \in Seq(OmissionEntry) /\ none \in Seq(OmissionEntry)
          BY <3>1
        <4>2. 1 \in Nat /\ 3 \in Nat /\ 4 \in Nat /\ 1 <= 3 /\ 3 <= 4 /\ 4 = 3 + 1
          OBVIOUS
        <4> QED
          BY <4>1, <4>2, PartsJoin
      <3>3. o \o none = o
        BY <3>1
      <3> QED
        BY <3>1, <3>2, <3>3
    <2>5. /\ v \in Seq(ValueEntry) /\ o \in Seq(OmissionEntry)
          /\ ratio.values \in Seq(ValueEntry) /\ ratio.omissions \in Seq(OmissionEntry)
          /\ impedance.values \in Seq(ValueEntry)
          /\ impedance.omissions \in Seq(OmissionEntry)
      BY <2>2, <2>4 DEF Account
    <2>6. PICK rv, ro, iv, io :
            /\ rv = ratio.values /\ ro = ratio.omissions
            /\ iv = impedance.values /\ io = impedance.omissions
            /\ Account(rv, ro, 5, 5) /\ Account(iv, io, 6, 7)
            /\ rv \in Seq(ValueEntry) /\ ro \in Seq(OmissionEntry)
            /\ iv \in Seq(ValueEntry) /\ io \in Seq(OmissionEntry)
      BY <2>2, <2>5
    <2>7. /\ Account(v \o rv, o \o ro, 1, 5)
          /\ ToSet(v \o rv) = ToSet(v) \cup ToSet(rv)
          /\ ToSet(o \o ro) = ToSet(o) \cup ToSet(ro)
      <3>1. /\ Account(v, o, 1, 4) /\ Account(rv, ro, 5, 5)
            /\ v \in Seq(ValueEntry) /\ o \in Seq(OmissionEntry)
            /\ rv \in Seq(ValueEntry) /\ ro \in Seq(OmissionEntry)
        BY <2>4, <2>5, <2>6
      <3>2. 1 \in Nat /\ 4 \in Nat /\ 5 \in Nat /\ 1 <= 4 /\ 4 <= 5 /\ 5 = 4 + 1
        OBVIOUS
      <3> QED
        BY <3>1, <3>2, PartsJoin
    <2>8. PICK w, q : /\ w = v \o rv /\ q = o \o ro
                      /\ Account(w, q, 1, 5)
                      /\ ToSet(w) = ToSet(v) \cup ToSet(rv)
                      /\ ToSet(q) = ToSet(o) \cup ToSet(ro)
                      /\ w \in Seq(ValueEntry) /\ q \in Seq(OmissionEntry)
      BY <2>7 DEF Account
    <2>9. /\ Account(w \o iv, q \o io, 1, 7)
          /\ ToSet(w \o iv) = ToSet(w) \cup ToSet(iv)
          /\ ToSet(q \o io) = ToSet(q) \cup ToSet(io)
      <3>1. /\ Account(w, q, 1, 5) /\ Account(iv, io, 6, 7)
            /\ w \in Seq(ValueEntry) /\ q \in Seq(OmissionEntry)
            /\ iv \in Seq(ValueEntry) /\ io \in Seq(OmissionEntry)
        BY <2>6, <2>8
      <3>2. 1 \in Nat /\ 5 \in Nat /\ 7 \in Nat /\ 1 <= 5 /\ 5 <= 7 /\ 6 = 5 + 1
        OBVIOUS
      <3> QED
        BY <3>1, <3>2, PartsJoin
    <2>10. made.values = w \o iv /\ made.omissions = q \o io
      BY <1>4, <1>8, <2>4, <2>6, <2>8, Zenon
    <2>11. /\ Account(made.values, made.omissions, 1, 7)
           /\ ToSet(made.values) = ToSet(w) \cup ToSet(impedance.values)
           /\ ToSet(made.omissions) = ToSet(q) \cup ToSet(impedance.omissions)
      BY <2>6, <2>9, <2>10
    <2>12. \A e \in ToSet(made.values) :
              e.metric \in ImpedanceMetrics => e \in ToSet(impedance.values)
      <3>1. \A m \in MetricsIn(w) : Rank(m) \in 1..5
        <4>1. Ranked(w, 1, 5)
          BY <2>8 DEF Account
        <4> QED
          BY <4>1, RankedIn
      <3>2. \A e \in ToSet(w) : e.metric \notin ImpedanceMetrics
        BY <1>6, <3>1 DEF MetricsIn
      <3> QED
        BY <2>11, <3>2
    <2>13. ~ Finite(z0) => \A e \in ToSet(made.values) :
              e.metric \in ImpedanceMetrics => ~ Finite(e.value)
      BY <2>2, <2>12
    <2>14. ASSUME Finite(z0), z0 # 0
           PROVE  Omission("vswr_at_target", "non-physical") \in ToSet(made.omissions)
                    <=> \E e \in ToSet(made.values) : Opposes(e, z0)
      <3>1. CASE /\ Omission("vswr_at_target", "non-physical") \in ToSet(ratio.omissions)
                 /\ \E e \in ToSet(impedance.values) : Opposes(e, z0)
        BY <2>6, <2>8, <2>11, <3>1
      <3>2. CASE /\ "vswr_at_target" \in MetricsIn(ratio.values)
                 /\ \A e \in ToSet(impedance.values) : ~ Opposes(e, z0)
        <4>1. Omission("vswr_at_target", "non-physical") \notin ToSet(made.omissions)
          <5>1. "vswr_at_target" \in MetricsIn(made.values)
            BY <2>6, <2>8, <2>11, <3>2 DEF MetricsIn
          <5>2. "vswr_at_target" \notin MetricsIn(made.omissions)
            BY <2>11, <5>1 DEF Account
          <5> QED
            BY <5>2 DEF MetricsIn, Omission
        <4>2. \A e : Opposes(e, z0) => e.metric \in ImpedanceMetrics
          BY DEF Opposes, ImpedanceMetrics
        <4> QED
          BY <2>12, <3>2, <4>1, <4>2
      <3> QED
        BY <2>2, <2>14, <3>1, <3>2
    <2> QED
      BY <1>8, <2>4, <2>6, <2>8, <2>11, <2>13, <2>14 DEF made, sweep
  <1> QED
    BY <1>7, <1>8

----------------------------------------------------------------------------
(* Records, and the omissions put in order.                                *)

\* The records: the values a record can carry, in their order.
LEMMA RecordsAreTheFinite ==
  ASSUME NEW values \in Seq(ValueEntry), Ranked(values, 1, 7), NEW status
  PROVE  LET made == FiniteRecords(values, status)
         IN /\ made \in Seq({Record(e, status) : e \in ValueEntry})
            /\ Ranked(made, 1, 7)
            /\ ToSet(made) = {Record(e, status) : e \in {v \in ToSet(values) : Finite(v.value)}}
  <1> DEFINE chosen == {i \in DOMAIN values : Finite(values[i].value)}
             finite == Kept(values, chosen)
             made == FiniteRecords(values, status)
  <1>1. /\ finite \in Seq(ValueEntry)
        /\ ToSet(finite) = {values[i] : i \in chosen \cap DOMAIN values}
    BY KeptHolds
  <1>2. Ranked(finite, 1, 7)
    <2>1. chosen \in SUBSET DOMAIN values
      OBVIOUS
    <2> QED
      BY <2>1, RankedKept
  <1>3. ToSet(finite) = {v \in ToSet(values) : Finite(v.value)}
    BY <1>1 DEF ToSet
  <1>4. made = [i \in DOMAIN finite |-> Record(finite[i], status)]
    BY DEF FiniteRecords
  <1> HIDE DEF finite, made
  <1>5. PICK n \in Nat : n = Len(finite) /\ DOMAIN finite = 1..n
    BY <1>1
  <1>6. DOMAIN made = 1..n /\ \A i \in 1..n : made[i] = Record(finite[i], status)
    BY <1>4, <1>5
  <1>7. \A i \in 1..n : finite[i] \in ValueEntry
    BY <1>1, <1>5
  <1>8. made \in Seq({Record(e, status) : e \in ValueEntry})
    <2>1. made \in [1..n -> {Record(e, status) : e \in ValueEntry}]
      BY <1>4, <1>5, <1>7
    <2> QED
      BY <2>1
  <1>9. \A i \in 1..n : made[i].metric = finite[i].metric
    BY <1>6 DEF Record
  <1>10. Ranked(made, 1, 7)
    BY <1>2, <1>5, <1>6, <1>9 DEF Ranked
  <1>11. ToSet(made) = {Record(e, status) : e \in ToSet(finite)}
    BY <1>5, <1>6 DEF ToSet
  <1> QED
    BY <1>3, <1>8, <1>10, <1>11 DEF made

\* The values no record can carry, each an omission that says which it was.
LEMMA OmittedAreTheRest ==
  ASSUME NEW values \in Seq(ValueEntry), Ranked(values, 1, 7)
  PROVE  LET made == NonFiniteOmissions(values)
         IN /\ made \in Seq([metric : MetricNames, reason : NonFinite])
            /\ Ranked(made, 1, 7)
            /\ ToSet(made) = {Omission(e.metric, e.value) :
                                e \in {v \in ToSet(values) : ~ Finite(v.value)}}
  <1> DEFINE chosen == {i \in DOMAIN values : ~ Finite(values[i].value)}
             refused == Kept(values, chosen)
             made == NonFiniteOmissions(values)
  <1>1. /\ refused \in Seq(ValueEntry)
        /\ ToSet(refused) = {values[i] : i \in chosen \cap DOMAIN values}
    BY KeptHolds
  <1>2. Ranked(refused, 1, 7)
    <2>1. chosen \in SUBSET DOMAIN values
      OBVIOUS
    <2> QED
      BY <2>1, RankedKept
  <1>3. ToSet(refused) = {v \in ToSet(values) : ~ Finite(v.value)}
    BY <1>1 DEF ToSet
  <1>4. made = [i \in DOMAIN refused |-> Omission(refused[i].metric, refused[i].value)]
    BY DEF NonFiniteOmissions
  <1> HIDE DEF refused, made
  <1>5. PICK n \in Nat : n = Len(refused) /\ DOMAIN refused = 1..n
    BY <1>1
  <1>6. /\ DOMAIN made = 1..n
        /\ \A i \in 1..n : made[i] = Omission(refused[i].metric, refused[i].value)
    BY <1>4, <1>5
  <1>7. \A i \in 1..n : refused[i].metric \in MetricNames /\ refused[i].value \in NonFinite
    <2> TAKE i \in 1..n
    <2>1. refused[i] \in ValueEntry /\ refused[i] \in ToSet(refused)
      BY <1>1, <1>5 DEF ToSet
    <2> QED
      BY <1>3, <2>1 DEF ValueEntry, Finite
  <1>8. made \in Seq([metric : MetricNames, reason : NonFinite])
    <2>1. \A i \in 1..n : made[i] \in [metric : MetricNames, reason : NonFinite]
      BY <1>6, <1>7 DEF Omission
    <2>2. PICK S : S = [metric : MetricNames, reason : NonFinite]
      OBVIOUS
    <2>3. made \in [1..n -> S]
      BY <1>4, <1>5, <2>1, <2>2
    <2>4. made \in Seq(S)
      BY <2>3
    <2> QED
      BY <2>2, <2>4
  <1>9. \A i \in 1..n : made[i].metric = refused[i].metric
    BY <1>6 DEF Omission
  <1>10. Ranked(made, 1, 7)
    BY <1>2, <1>5, <1>6, <1>9 DEF Ranked
  <1>11. ToSet(made) = {Omission(e.metric, e.value) : e \in ToSet(refused)}
    BY <1>5, <1>6 DEF ToSet
  <1> QED
    BY <1>3, <1>8, <1>10, <1>11 DEF made

\* No two entries are of one metric.
Apart(s) == \A i, j \in DOMAIN s : i < j => s[i].metric # s[j].metric

LEMMA RankedAreApart ==
  ASSUME NEW T, NEW s \in Seq(T), NEW t \in Seq(T), Ranked(s, 1, 7), Ranked(t, 1, 7),
         MetricsIn(s) \cap MetricsIn(t) = {}
  PROVE  /\ Apart(s \o t)
         /\ s \o t \in Seq(T)
         /\ ToSet(s \o t) = ToSet(s) \cup ToSet(t)
  <1>1. PICK n \in Nat, m \in Nat : n = Len(s) /\ m = Len(t)
    OBVIOUS
  <1>2. DOMAIN s = 1..n /\ DOMAIN t = 1..m
    BY <1>1
  <1> DEFINE u == s \o t
  <1>3. Joined(u, s, t, n, m)
    BY <1>1, JoinedPlaces
  <1>4. u \in Seq(T)
    OBVIOUS
  <1> HIDE DEF u
  <1>5. /\ DOMAIN u = 1..(n + m)
        /\ \A i \in 1..n : u[i] = s[i]
        /\ \A i \in 1..m : u[n + i] = t[i]
    BY <1>3 DEF Joined
  <1>6. ASSUME NEW i \in 1..(n + m)
        PROVE  \/ i \in 1..n /\ u[i] = s[i]
               \/ \E k \in 1..m : i = n + k /\ u[i] = t[k]
    <2>1. CASE i <= n
      BY <1>5, <2>1
    <2>2. CASE i > n
      <3>1. i - n \in 1..m /\ i = n + (i - n)
        BY <2>2
      <3> QED
        BY <1>5, <3>1
    <2> QED
      BY <2>1, <2>2
  <1>7. \A i, j \in DOMAIN s : i < j => s[i].metric # s[j].metric
    <2>1. \A i \in DOMAIN s : Rank(s[i].metric) \in Int
      BY RanksOfMetrics DEF Ranked
    <2>2. \A x : Rank(x) \in Int => ~ (Rank(x) < Rank(x))
      OBVIOUS
    <2> QED
      BY <2>1, <2>2 DEF Ranked
  <1>8. \A i, j \in DOMAIN t : i < j => t[i].metric # t[j].metric
    <2>1. \A i \in DOMAIN t : Rank(t[i].metric) \in Int
      BY RanksOfMetrics DEF Ranked
    <2>2. \A x : Rank(x) \in Int => ~ (Rank(x) < Rank(x))
      OBVIOUS
    <2> QED
      BY <2>1, <2>2 DEF Ranked
  <1>9. \A i \in 1..n, k \in 1..m : s[i].metric # t[k].metric
    BY <1>2 DEF MetricsIn, ToSet
  <1>10. ASSUME NEW i \in 1..(n + m), NEW j \in 1..(n + m), i < j
         PROVE  u[i].metric # u[j].metric
    <2>1. CASE j \in 1..n
      <3>1. i \in 1..n
        BY <1>10, <2>1
      <3> QED
        BY <1>2, <1>5, <1>7, <1>10, <2>1, <3>1
    <2>2. ASSUME NEW k \in 1..m, j = n + k, u[j] = t[k], i \in 1..n
          PROVE  u[i].metric # u[j].metric
      BY <1>5, <1>9, <2>2
    <2>3. ASSUME NEW k \in 1..m, j = n + k, u[j] = t[k],
                 NEW l \in 1..m, i = n + l, u[i] = t[l]
          PROVE  u[i].metric # u[j].metric
      <3>1. l < k
        BY <1>10, <2>3
      <3> QED
        BY <1>2, <1>8, <2>3, <3>1
    <2> QED
      BY <1>6, <2>1, <2>2, <2>3
  <1>11. Apart(u)
    BY <1>5, <1>10 DEF Apart
  <1>12. ToSet(u) = ToSet(s) \cup ToSet(t)
    <2>1. /\ ToSet(s) = {s[i] : i \in 1..n} /\ ToSet(t) = {t[i] : i \in 1..m}
          /\ ToSet(u) = {u[i] : i \in 1..(n + m)}
      BY <1>2, <1>5 DEF ToSet
    <2>2. \A i \in 1..(n + m) : u[i] \in ToSet(s) \cup ToSet(t)
      BY <1>6, <2>1
    <2>3. \A i \in 1..n : s[i] \in ToSet(u)
      <3> TAKE i \in 1..n
      <3>1. i \in 1..(n + m) /\ u[i] = s[i]
        BY <1>5
      <3> QED
        BY <2>1, <3>1
    <2>4. \A i \in 1..m : t[i] \in ToSet(u)
      <3> TAKE i \in 1..m
      <3>1. n + i \in 1..(n + m)
        OBVIOUS
      <3>2. u[n + i] = t[i]
        BY <1>5
      <3> QED
        BY <2>1, <3>1, <3>2
    <2> QED
      BY <2>1, <2>2, <2>3, <2>4
  <1> QED
    BY <1>4, <1>11, <1>12 DEF u

\* The omissions of one rank, and the loop that puts rank after rank.
OfRank(o, k) == Kept(o, {i \in DOMAIN o : Rank(o[i].metric) = k})

OrderedOn(out, o, k) == out \o OfRank(o, k)

OrderedLoop(f, o) ==
  f = [k \in 0..7 |-> IF k = 0 THEN <<>> ELSE OrderedOn(f[k - 1], o, k)]

LEMMA RankIsOfOne ==
  ASSUME NEW T, NEW o \in Seq(T), Apart(o), NEW k \in 1..7,
         \A i \in DOMAIN o : o[i].metric \in MetricNames
  PROVE  /\ OfRank(o, k) \in Seq(T)
         /\ Ranked(OfRank(o, k), k, k)
         /\ ToSet(OfRank(o, k)) = {e \in ToSet(o) : Rank(e.metric) = k}
  <1> DEFINE chosen == {i \in DOMAIN o : Rank(o[i].metric) = k}
             v == Kept(o, chosen)
  <1>1. v \in Seq(T) /\ ToSet(v) = {o[i] : i \in chosen \cap DOMAIN o}
    BY KeptHolds
  <1>2. PICK p : Numbering(p, v, o, chosen, Len(o))
    BY KeptInOrder
  <1>3. ToSet(v) = {e \in ToSet(o) : Rank(e.metric) = k}
    BY <1>1 DEF ToSet
  <1>4. v = OfRank(o, k)
    BY DEF OfRank
  <1> HIDE DEF v
  <1>5. PICK m \in Nat : m = Len(v) /\ DOMAIN v = 1..m
    BY <1>1
  <1>6. /\ \A a \in 1..m : p[a] \in chosen /\ v[a] = o[p[a]]
        /\ \A a, b \in 1..m : a < b => p[a] < p[b]
    BY <1>2, <1>5 DEF Numbering
  <1>7. \A a \in 1..m : v[a].metric \in MetricNames /\ Rank(v[a].metric) = k
    BY <1>6
  <1>8. \A a, b \in 1..m : ~ (a < b)
    <2> SUFFICES ASSUME NEW a \in 1..m, NEW b \in 1..m, a < b PROVE FALSE
      OBVIOUS
    <2>1. v[a].metric = v[b].metric
      BY <1>7, RanksOfMetrics
    <2>2. v[a].metric # v[b].metric
      BY <1>6 DEF Apart
    <2> QED
      BY <2>1, <2>2
  <1>9. k \in k..k
    OBVIOUS
  <1>10. Ranked(v, k, k)
    BY <1>5, <1>7, <1>8, <1>9 DEF Ranked
  <1> QED
    BY <1>1, <1>3, <1>4, <1>10

LEMMA OrderedLoopRuns ==
  ASSUME NEW T, NEW o, \A k \in 1..7 : OfRank(o, k) \in Seq(T)
  PROVE  \E f : OrderedLoop(f, o)
  <1> DEFINE V == Seq(T)
             G == [x \in (1..7) \X V |-> OrderedOn(x[2], o, x[1])]
  <1>1. \A k \in 1..7, v \in V : G[<<k, v>>] = OrderedOn(v, o, k) /\ G[<<k, v>>] \in V
    <2> TAKE k \in 1..7, v \in V
    <2>1. OrderedOn(v, o, k) \in V
      BY DEF OrderedOn
    <2> QED
      BY <2>1
  <1>2. <<>> \in V /\ 7 \in Nat
    OBVIOUS
  <1> HIDE DEF G, V
  <1>3. PICK f : Turns(f, 7, <<>>, G) /\ Along(f, 7, <<>>, G, V)
    BY <1>1, <1>2, TurnsExist
  <1>4. f[0] = <<>> /\ \A k \in 1..7 : f[k] = OrderedOn(f[k - 1], o, k)
    <2>1. \A k \in 1..7 : k - 1 \in 0..7
      OBVIOUS
    <2> QED
      BY <1>1, <1>3, <2>1 DEF Along
  <1>5. f = [k \in 0..7 |-> f[k]]
    BY <1>3 DEF Turns
  <1>6. \A k \in 0..7 : f[k] = IF k = 0 THEN <<>> ELSE OrderedOn(f[k - 1], o, k)
    BY <1>4
  <1>7. OrderedLoop(f, o)
    BY <1>5, <1>6 DEF OrderedLoop
  <1> QED
    BY <1>7

\* The order changes nothing but the order.
LEMMA OrderedIsRanked ==
  ASSUME NEW T, NEW o \in Seq(T), Apart(o),
         \A i \in DOMAIN o : o[i].metric \in MetricNames
  PROVE  /\ Ordered(o) \in Seq(T)
         /\ Ranked(Ordered(o), 0, 7)
         /\ ToSet(Ordered(o)) = ToSet(o)
  <1>1. \A k \in 1..7 : /\ OfRank(o, k) \in Seq(T)
                        /\ Ranked(OfRank(o, k), k, k)
                        /\ ToSet(OfRank(o, k)) = {e \in ToSet(o) : Rank(e.metric) = k}
    BY RankIsOfOne
  <1> DEFINE f == CHOOSE g : OrderedLoop(g, o)
  <1>2. Ordered(o) = f[7]
    <2>1. Len(MetricOrder) = 7
      BY DEF MetricOrder
    <2> QED
      BY <2>1 DEF Ordered, OrderedLoop, OrderedOn, OfRank
  <1>3. OrderedLoop(f, o)
    BY <1>1, OrderedLoopRuns
  <1> HIDE DEF f
  <1>4. f[0] = <<>> /\ \A k \in 1..7 : f[k] = OrderedOn(f[k - 1], o, k)
    <2>1. \A k \in 0..7 : f[k] = IF k = 0 THEN <<>> ELSE OrderedOn(f[k - 1], o, k)
      BY <1>3 DEF OrderedLoop
    <2> QED
      BY <2>1
  <1> DEFINE UpTo(k) == {e \in ToSet(o) : Rank(e.metric) \in 0..k}
             S == {k \in Nat : k <= 7 => /\ f[k] \in Seq(T)
                                         /\ Ranked(f[k], 0, k)
                                         /\ ToSet(f[k]) = UpTo(k)}
  <1>5. \A e \in ToSet(o) : Rank(e.metric) \in 1..7
    BY RanksOfMetrics DEF ToSet
  <1>6. 0 \in S
    <2>1. <<>> \in Seq(T) /\ Ranked(<<>>, 0, 0) /\ ToSet(<<>>) = {}
      BY DEF Ranked, ToSet
    <2>2. UpTo(0) = {}
      BY <1>5
    <2> QED
      BY <1>4, <2>1, <2>2
  <1>7. ASSUME NEW k \in Nat, k \in S PROVE k + 1 \in S
    <2> SUFFICES ASSUME k + 1 <= 7
                 PROVE  /\ f[k + 1] \in Seq(T)
                        /\ Ranked(f[k + 1], 0, k + 1)
                        /\ ToSet(f[k + 1]) = UpTo(k + 1)
      OBVIOUS
    <2>1. f[k] \in Seq(T) /\ Ranked(f[k], 0, k) /\ ToSet(f[k]) = UpTo(k)
      BY <1>7
    <2>2. PICK l \in 1..7 : l = k + 1 /\ l - 1 = k /\ l \in Nat /\ 0 <= k /\ k <= l
      OBVIOUS
    <2>3. f[l] = f[k] \o OfRank(o, l)
      <3>1. f[l] = OrderedOn(f[k], o, l)
        BY <1>4, <2>2
      <3> QED
        BY <3>1 DEF OrderedOn
    <2>4. Ranked(OfRank(o, l), k + 1, l) /\ OfRank(o, l) \in Seq(T)
      BY <1>1, <2>2
    <2>5. /\ Ranked(f[k] \o OfRank(o, l), 0, l)
          /\ ToSet(f[k] \o OfRank(o, l)) = ToSet(f[k]) \cup ToSet(OfRank(o, l))
          /\ f[k] \o OfRank(o, l) \in Seq(T)
      BY <2>1, <2>2, <2>4, RankedJoin
    <2>6. UpTo(k) \cup {e \in ToSet(o) : Rank(e.metric) = l} = UpTo(l)
      <3>1. \A x : x \in 0..l <=> (x \in 0..k \/ x = l)
        BY <2>2
      <3> QED
        BY <3>1
    <2> QED
      BY <1>1, <2>1, <2>2, <2>3, <2>5, <2>6
  <1> HIDE DEF S
  <1>8. Nat \subseteq S
    BY <1>6, <1>7, NatSetInduction
  <1>9. 7 \in S
    BY <1>8
  <1>10. UpTo(7) = ToSet(o)
    <2>1. 1..7 \subseteq 0..7
      OBVIOUS
    <2> QED
      BY <1>5, <2>1
  <1> HIDE DEF UpTo
  <1>11. 7 <= 7
    OBVIOUS
  <1>12. f[7] \in Seq(T) /\ Ranked(f[7], 0, 7) /\ ToSet(f[7]) = UpTo(7)
    BY <1>9, <1>11 DEF S
  <1> QED
    BY <1>2, <1>10, <1>12

----------------------------------------------------------------------------
(* The two promises of the numbers: each metric once, and the band.        *)

Stated == OmissionEntry \cup [metric : MetricNames, reason : NonFinite]

\* What is on record, and what is left out, of an account.
OnRecord(records, omitted, values, omissions, status) ==
  /\ records \in Seq({Record(e, status) : e \in ValueEntry})
  /\ Ranked(records, 1, 7)
  /\ ToSet(records) = {Record(e, status) : e \in {v \in ToSet(values) : Finite(v.value)}}
  /\ omitted \in Seq(Stated)
  /\ Ranked(omitted, 0, 7)
  /\ ToSet(omitted) = ToSet(omissions) \cup
       {Omission(e.metric, e.value) : e \in {v \in ToSet(values) : ~ Finite(v.value)}}

LEMMA NumbersOnRecord ==
  ASSUME NEW values, NEW omissions, Account(values, omissions, 1, 7), NEW status
  PROVE  OnRecord(FiniteRecords(values, status),
                  Ordered(omissions \o NonFiniteOmissions(values)),
                  values, omissions, status)
  <1> DEFINE refused == NonFiniteOmissions(values)
  <1>1. /\ values \in Seq(ValueEntry) /\ Ranked(values, 1, 7)
        /\ omissions \in Seq(OmissionEntry) /\ Ranked(omissions, 1, 7)
        /\ MetricsIn(values) \cap MetricsIn(omissions) = {}
    BY DEF Account
  <1>2. /\ FiniteRecords(values, status) \in Seq({Record(e, status) : e \in ValueEntry})
        /\ Ranked(FiniteRecords(values, status), 1, 7)
        /\ ToSet(FiniteRecords(values, status))
             = {Record(e, status) : e \in {v \in ToSet(values) : Finite(v.value)}}
    BY <1>1, RecordsAreTheFinite
  <1>3. /\ refused \in Seq([metric : MetricNames, reason : NonFinite])
        /\ Ranked(refused, 1, 7)
        /\ ToSet(refused) = {Omission(e.metric, e.value) :
                               e \in {v \in ToSet(values) : ~ Finite(v.value)}}
    BY <1>1, OmittedAreTheRest
  <1>4. MetricsIn(refused) \subseteq MetricsIn(values)
    BY <1>3 DEF MetricsIn, Omission
  <1>5. omissions \in Seq(Stated) /\ refused \in Seq(Stated)
    <2>1. OmissionEntry \subseteq Stated /\ [metric : MetricNames, reason : NonFinite] \subseteq Stated
      BY DEF Stated
    <2>2. \A S, U : S \subseteq U => Seq(S) \subseteq Seq(U)
      OBVIOUS
    <2> HIDE DEF refused
    <2> QED
      BY <1>1, <1>3, <2>1, <2>2
  <1> HIDE DEF refused
  <1>6. MetricsIn(omissions) \cap MetricsIn(refused) = {}
    BY <1>1, <1>4
  <1>7. /\ Apart(omissions \o refused)
        /\ omissions \o refused \in Seq(Stated)
        /\ ToSet(omissions \o refused) = ToSet(omissions) \cup ToSet(refused)
    BY <1>1, <1>3, <1>5, <1>6, RankedAreApart
  <1>8. PICK all : all = omissions \o refused
    OBVIOUS
  <1>9. all \in Seq(Stated) /\ Apart(all)
        /\ ToSet(all) = ToSet(omissions) \cup ToSet(refused)
    BY <1>7, <1>8
  <1>10. \A i \in DOMAIN all : all[i].metric \in MetricNames
    <2>1. \A e \in Stated : e.metric \in MetricNames
      BY DEF Stated, OmissionEntry
    <2> QED
      BY <1>9, <2>1
  <1>11. /\ Ordered(all) \in Seq(Stated)
         /\ Ranked(Ordered(all), 0, 7)
         /\ ToSet(Ordered(all)) = ToSet(all)
    BY <1>9, <1>10, OrderedIsRanked
  <1> QED
    BY <1>2, <1>3, <1>8, <1>9, <1>11 DEF refused, OnRecord

\* The numbers of a run, and what they were computed from.
LEMMA NumbersOfTheRun ==
  ASSUME PipelineInv, Numbers
  PROVE  LET frequencies == snapshot.solved_data.frequencies
             s11 == snapshot.solved_data.s_parameters[S11Key]
             z0 == request.reference_impedance
             made == ComputedValues(frequencies, s11, snapshot.intent, z0)
         IN /\ frequencies \in Seq(Number) /\ s11 \in Seq(Sample)
            /\ snapshot.intent \in Number \cup {None} /\ z0 \in Number
            /\ ~ PreconditionFails(frequencies, s11, snapshot.intent)
            /\ metrics.metrics = FiniteRecords(made.values, GateStatus(Supplied))
            /\ metrics.omitted = Ordered(made.omissions \o NonFiniteOmissions(made.values))
  <1> DEFINE data == snapshot.solved_data
  <1>1. /\ phase \in Judged
        /\ IsRead(data)
        /\ metrics = ComputeMetrics(Supplied, data, snapshot.intent,
                                    request.reference_impedance)
        /\ metrics.metrics # <<>>
    <2>1. phase \in Judged \ {"judged"} /\ phase \in Judged
      BY DEF PipelineInv, PhasesAgree, Numbers
    <2>2. metrics = IF IsRead(data) THEN ComputeMetrics(Supplied, data, snapshot.intent,
                                    request.reference_impedance)
                    ELSE None
      BY <2>1 DEF PipelineInv, ResultsAgree
    <2>3. IsRead(data)
      BY <2>2 DEF Numbers
    <2> QED
      BY <2>1, <2>2, <2>3 DEF Numbers
  <1>2. /\ snapshot.intent \in Number \cup {None} /\ request.reference_impedance \in Number
        /\ data.frequencies \in Seq(Number)
        /\ \A key \in DOMAIN data.s_parameters : data.s_parameters[key] \in Seq(Sample)
    BY <1>1, JudgedHoldsThePieces DEF Sample
  <1> QED
    BY <1>1, <1>2, NumbersWereComputed

LEMMA MetricsOfEntries ==
  ASSUME NEW T, NEW s \in Seq(T)
  PROVE  /\ ToSet(MetricsOf(s)) = MetricsIn(s)
         /\ \A low, high : Ranked(s, low, high) => InMetricOrder(MetricsOf(s))
  BY DEF MetricsOf, MetricsIn, ToSet, Ranked, InMetricOrder

LEMMA ImpedanceIsTheLast ==
  /\ ToSet(SubSeq(MetricOrder, 6, 7)) = ImpedanceMetrics
  /\ ImpedanceMetrics \subseteq MetricNames
  <1> DEFINE parts == SubSeq(MetricOrder, 6, 7)
  <1>1. /\ DOMAIN parts = 1..2
        /\ parts[1] = "impedance_at_target_resistance"
        /\ parts[2] = "impedance_at_target_reactance"
    BY DEF MetricOrder
  <1> HIDE DEF parts
  <1>2. ToSet(parts) = ImpedanceMetrics
    BY <1>1 DEF ToSet, ImpedanceMetrics
  <1>3. ImpedanceMetrics \subseteq MetricNames
    <2>1. 6 \in 1..7 /\ 7 \in 1..7
          /\ MetricOrder[6] = "impedance_at_target_resistance"
          /\ MetricOrder[7] = "impedance_at_target_reactance"
      BY DEF MetricOrder
    <2> QED
      BY <2>1, RanksOfMetrics DEF ImpedanceMetrics
  <1> QED
    BY <1>2, <1>3 DEF parts

LEMMA MetricsAreAccountedFor ==
  ASSUME PipelineInv
  PROVE  EveryMetricIsAccountedFor
  <1> SUFFICES ASSUME Numbers PROVE EveryMetricIsAccountedFor
    BY DEF EveryMetricIsAccountedFor
  <1> DEFINE frequencies == snapshot.solved_data.frequencies
             s11 == snapshot.solved_data.s_parameters[S11Key]
             z0 == request.reference_impedance
             made == ComputedValues(frequencies, s11, snapshot.intent, z0)
             status == GateStatus(Supplied)
             records == metrics.metrics
             omitted == metrics.omitted
             unfit == {v \in ToSet(made.values) : ~ Finite(v.value)}
  <1>1. /\ frequencies \in Seq(Number) /\ s11 \in Seq(Sample)
        /\ snapshot.intent \in Number \cup {None} /\ z0 \in Number
        /\ ~ PreconditionFails(frequencies, s11, snapshot.intent)
        /\ records = FiniteRecords(made.values, status)
        /\ omitted = Ordered(made.omissions \o NonFiniteOmissions(made.values))
    BY NumbersOfTheRun
  <1> HIDE DEF frequencies, s11, z0
  <1>2. /\ Account(made.values, made.omissions, 1, 7)
        /\ snapshot.intent = None =>
             \A k \in 4..7 : Omission(MetricOrder[k], "no intent") \in ToSet(made.omissions)
        /\ Finite(z0) /\ z0 # 0 =>
             (Omission("vswr_at_target", "non-physical") \in ToSet(made.omissions)
                <=> \E e \in ToSet(made.values) : Opposes(e, z0))
        /\ ~ Finite(z0) => \A e \in ToSet(made.values) :
             e.metric \in ImpedanceMetrics => ~ Finite(e.value)
    BY <1>1, ComputedIsWhole
  <1> HIDE DEF made, status, records, omitted
  <1>3. /\ records \in Seq({Record(e, status) : e \in ValueEntry})
        /\ Ranked(records, 1, 7)
        /\ ToSet(records) = {Record(e, status) : e \in {v \in ToSet(made.values) : Finite(v.value)}}
        /\ omitted \in Seq(Stated)
        /\ Ranked(omitted, 0, 7)
        /\ ToSet(omitted) = ToSet(made.omissions) \cup
             {Omission(e.metric, e.value) : e \in unfit}
    <2>1. OnRecord(records, omitted, made.values, made.omissions, status)
      BY <1>1, <1>2, NumbersOnRecord
    <2> QED
      BY <2>1 DEF OnRecord
  <1>4. /\ \A e \in ValueEntry : Record(e, status).metric = e.metric
                                 /\ Record(e, status).value = e.value
        /\ \A m, reason : Omission(m, reason).metric = m /\ Omission(m, reason).reason = reason
    BY DEF Record, Omission
  <1>5. /\ made.values \in Seq(ValueEntry) /\ Ranked(made.values, 1, 7)
        /\ made.omissions \in Seq(OmissionEntry)
        /\ MetricsIn(made.values) \cap MetricsIn(made.omissions) = {}
        /\ \A k \in 1..7 :
             MetricOrder[k] \in MetricsIn(made.values) \cup MetricsIn(made.omissions)
    BY <1>2 DEF Account
  <1>6. ToSet(made.values) \subseteq ValueEntry
    BY <1>5 DEF ToSet
  <1> HIDE DEF unfit
  <1>7. /\ MetricsIn(records) = {v.metric : v \in {x \in ToSet(made.values) : Finite(x.value)}}
        /\ MetricsIn(omitted) = MetricsIn(made.omissions) \cup {v.metric : v \in unfit}
    <2>1. MetricsIn(records) = {v.metric : v \in {x \in ToSet(made.values) : Finite(x.value)}}
      BY <1>3, <1>4, <1>6 DEF MetricsIn
    <2>2. MetricsIn(omitted) = MetricsIn(made.omissions) \cup {v.metric : v \in unfit}
      BY <1>3, <1>4 DEF MetricsIn
    <2> QED
      BY <2>1, <2>2
  <1>8. MetricsIn(records) \cap MetricsIn(omitted) = {}
    <2> SUFFICES ASSUME NEW x \in MetricsIn(records), x \in MetricsIn(omitted) PROVE FALSE
      OBVIOUS
    <2>1. PICK v \in ToSet(made.values) : x = v.metric /\ Finite(v.value)
      BY <1>7
    <2>2. x \notin MetricsIn(made.omissions)
      BY <1>5, <2>1 DEF MetricsIn
    <2>3. PICK w \in ToSet(made.values) : x = w.metric /\ ~ Finite(w.value)
      BY <1>7, <2>2 DEF unfit
    <2>4. v = w
      BY <1>5, <2>1, <2>3, RankedOnce
    <2> QED
      BY <2>1, <2>3, <2>4
  <1>9. MetricsIn(records) \cup MetricsIn(omitted) = MetricNames
    <2>1. \A m \in MetricNames : m \in MetricsIn(made.values) \cup MetricsIn(made.omissions)
      BY <1>5, RanksOfMetrics
    <2>2. MetricsIn(made.values) = {v.metric : v \in {x \in ToSet(made.values) : Finite(x.value)}}
                                   \cup {v.metric : v \in unfit}
      BY DEF MetricsIn, unfit
    <2>3. MetricsIn(records) \subseteq MetricNames /\ MetricsIn(omitted) \subseteq MetricNames
      BY <1>3, RankedIn
    <2> QED
      BY <1>7, <2>1, <2>2, <2>3
  <1>10. \A m \in ToSet(records) : m.value \notin NonFinite \cup {ValueError}
    <2> SUFFICES ASSUME NEW e \in ToSet(made.values), Finite(e.value)
                 PROVE  e.value \notin NonFinite \cup {ValueError}
      BY <1>3, <1>4, <1>6
    <2>1. e.value \in ToldValues
      BY <1>6 DEF ValueEntry
    <2>2. e.value \in Carried
      BY <2>1 DEF ToldValues, Finite, NonFinite
    <2> QED
      BY <2>2, CarriedIsFinite DEF Finite
  <1>11. ASSUME snapshot.intent = None PROVE ToSet(AtTargetMetrics) \subseteq MetricsIn(omitted)
    <2>1. \A i \in 1..4 : AtTargetMetrics[i] \in MetricsIn(made.omissions)
      <3> TAKE i \in 1..4
      <3>1. i + 3 \in 4..7
        OBVIOUS
      <3>2. Omission(MetricOrder[i + 3], "no intent") \in ToSet(made.omissions)
        BY <1>2, <1>11, <3>1
      <3> QED
        BY <1>4, <3>2, AtTargetAreTheLast DEF MetricsIn
    <2> QED
      BY <1>7, <2>1, AtTargetAreTheLast DEF ToSet
  <1>12. ASSUME Finite(z0), z0 # 0
         PROVE  Omission("vswr_at_target", "non-physical") \in ToSet(omitted)
                  <=> \E m \in ToSet(records) :
                        m.metric = "impedance_at_target_resistance" /\ m.value.num * z0 < 0
    <2>1. Omission("vswr_at_target", "non-physical") \notin
            {Omission(e.metric, e.value) : e \in unfit}
      BY <1>4, ReasonAssumption DEF unfit, Finite
    <2>2. Omission("vswr_at_target", "non-physical") \in ToSet(omitted)
            <=> Omission("vswr_at_target", "non-physical") \in ToSet(made.omissions)
      BY <1>3, <2>1
    <2>3. (\E m \in ToSet(records) :
             m.metric = "impedance_at_target_resistance" /\ m.value.num * z0 < 0)
            <=> \E e \in ToSet(made.values) : Opposes(e, z0)
      BY <1>3, <1>4, <1>6 DEF Opposes
    <2> QED
      BY <1>2, <1>12, <2>2, <2>3
  <1>15. ASSUME ~ Finite(z0)
         PROVE  ToSet(SubSeq(MetricOrder, 6, 7)) \subseteq MetricsIn(omitted)
    <2>1. ToSet(SubSeq(MetricOrder, 6, 7)) = ImpedanceMetrics
          /\ ImpedanceMetrics \subseteq MetricNames
      BY ImpedanceIsTheLast
    <2>2. \A m \in ImpedanceMetrics : m \notin MetricsIn(records)
      BY <1>2, <1>7, <1>15
    <2> QED
      BY <1>9, <2>1, <2>2
  <1>13. /\ ToSet(MetricsOf(records)) = MetricsIn(records) /\ InMetricOrder(MetricsOf(records))
         /\ ToSet(MetricsOf(omitted)) = MetricsIn(omitted) /\ InMetricOrder(MetricsOf(omitted))
    BY <1>3, MetricsOfEntries
  <1>14. ToSet(MetricOrder) = MetricNames
    BY RanksOfMetrics
  <1> QED
    BY <1>8, <1>9, <1>10, <1>11, <1>12, <1>13, <1>14, <1>15
    DEF EveryMetricIsAccountedFor, records, omitted, z0

\* Each approved metric is a finite record or a stated omission, once and in
\* the approved order, for every sweep, target and reference impedance; one that
\* is not finite leaves no impedance, and beside one that is, and is not zero, a
\* standing-wave ratio is non-physical exactly when the resistance has the other
\* sign (metrics/assembler.py).
THEOREM MetricsAreWhole == Spec => []EveryMetricIsAccountedFor
  <1>1. PipelineInv => EveryMetricIsAccountedFor
    BY MetricsAreAccountedFor
  <1> QED
    BY <1>1, ResultsAreTheirFunctions, PTL

ValuesOf(records, name) == {m.value : m \in {x \in ToSet(records) : x.metric = name}}

\* A computed value that a record can carry is the one shown under its name.
LEMMA ShownValue ==
  ASSUME NEW values \in Seq(ValueEntry), NEW omissions, NEW records, NEW omitted, NEW status,
         OnRecord(records, omitted, values, omissions, status),
         NEW e \in ToSet(values), Finite(e.value)
  PROVE  ValuesOf(records, e.metric) = {e.value}
  <1>1. e \in ValueEntry
    BY DEF ToSet
  <1>2. PICK m : m = Record(e, status) /\ m.metric = e.metric /\ m.value = e.value
    <2>1. Record(e, status).metric = e.metric /\ Record(e, status).value = e.value
      BY DEF Record
    <2> QED
      BY <2>1
  <1>3. m \in ToSet(records)
    BY <1>2 DEF OnRecord
  <1>4. \A x \in ToSet(records) : x.metric = e.metric => x = m
    <2> SUFFICES ASSUME NEW x \in ToSet(records), x.metric = e.metric PROVE x = m
      OBVIOUS
    <2>1. x.metric = m.metric
      BY <1>2
    <2>2. /\ Ranked(records, 1, 7)
          /\ records \in Seq({Record(y, status) : y \in ValueEntry})
      BY DEF OnRecord
    <2> QED
      BY <1>3, <2>1, <2>2, RankedOnce
  <1> QED
    BY <1>2, <1>3, <1>4 DEF ValuesOf

LEMMA BandIsAround ==
  ASSUME PipelineInv
  PROVE  BandSurroundsResonance
  <1> SUFFICES ASSUME Numbers PROVE BandSurroundsResonance
    BY DEF BandSurroundsResonance
  <1> DEFINE frequencies == snapshot.solved_data.frequencies
             s11 == snapshot.solved_data.s_parameters[S11Key]
             z0 == request.reference_impedance
             made == ComputedValues(frequencies, s11, snapshot.intent, z0)
             sweep == SweepValues(frequencies, s11)
             status == GateStatus(Supplied)
             records == metrics.metrics
             omitted == metrics.omitted
             deep == {i \in DOMAIN s11 : AtMostMinus10dB(s11[i])}
  <1>1. /\ frequencies \in Seq(Number) /\ s11 \in Seq(Sample)
        /\ snapshot.intent \in Number \cup {None} /\ z0 \in Number
        /\ ~ PreconditionFails(frequencies, s11, snapshot.intent)
        /\ records = FiniteRecords(made.values, status)
        /\ omitted = Ordered(made.omissions \o NonFiniteOmissions(made.values))
    BY NumbersOfTheRun
  <1>2. SeriesIsUsable(frequencies, s11)
    BY <1>1 DEF PreconditionFails
  <1> HIDE DEF frequencies, s11, z0
  <1>3. /\ Account(made.values, made.omissions, 1, 7)
        /\ ToSet(sweep.values) \subseteq ToSet(made.values)
        /\ ToSet(sweep.omissions) \subseteq ToSet(made.omissions)
    BY <1>1, ComputedIsWhole
  <1> HIDE DEF made, status, records, omitted
  <1>4. OnRecord(records, omitted, made.values, made.omissions, status)
    BY <1>1, <1>3, NumbersOnRecord
  <1>5. made.values \in Seq(ValueEntry)
        /\ MetricsIn(made.values) \cap MetricsIn(made.omissions) = {}
    BY <1>3 DEF Account
  <1>6. PICK n \in Nat \ {0} :
          /\ n = Len(s11) /\ DOMAIN s11 = 1..n
          /\ \A i \in 1..n : frequencies[i] \in Int /\ Magnitude(s11[i]) \in Int
    BY <1>1, <1>2, UsableIsWhole
  <1>7. PICK r \in 1..n : r = ResonanceIndex(s11) /\ FirstDeepest(r, s11, n)
    <2>1. FirstDeepest(ResonanceIndex(s11), s11, n)
      BY <1>1, <1>2, <1>6, LevelsAreCarried
    <2> QED
      BY <2>1 DEF FirstDeepest
  <1>8. /\ Value("resonant_frequency", Hz(frequencies[r])) \in ToSet(sweep.values)
        /\ IF AtMostMinus10dB(s11[r])
           THEN \E low \in 1..r, high \in r..n :
                  /\ DeepFrom(low, s11, r) /\ DeepTo(high, s11, r, n)
                  /\ Value("minus_10db_bandwidth", Hz(frequencies[high] - frequencies[low]))
                       \in ToSet(sweep.values)
           ELSE Omission("minus_10db_bandwidth", "no band") \in ToSet(sweep.omissions)
    BY <1>1, <1>2, <1>6, <1>7, SweepPart
  <1> HIDE DEF sweep
  <1>9. ASSUME NEW name, NEW f \in Int, Value(name, Hz(f)) \in ToSet(sweep.values)
        PROVE  ValuesOf(records, name) = {Hz(f)}
    <2>1. PICK e : e = Value(name, Hz(f)) /\ e.metric = name /\ e.value = Hz(f)
      <3>1. Value(name, Hz(f)).metric = name /\ Value(name, Hz(f)).value = Hz(f)
        BY DEF Value
      <3> QED
        BY <3>1
    <2>2. Finite(Hz(f))
      <3>1. Hz(f) \in Carried
        BY DEF Hz, Carried
      <3> QED
        BY <3>1, CarriedIsFinite
    <2>3. e \in ToSet(made.values) /\ Finite(e.value)
      BY <1>3, <1>9, <2>1, <2>2
    <2>4. ValuesOf(records, e.metric) = {e.value}
      BY <1>4, <1>5, <2>3, ShownValue
    <2> QED
      BY <2>1, <2>4
  <1>10. ValuesOf(records, "resonant_frequency") = {Hz(frequencies[r])}
    BY <1>6, <1>8, <1>9
  <1>11. /\ \A i \in DOMAIN s11 : Magnitude(s11[r]) <= Magnitude(s11[i])
         /\ \A i \in 1..(r - 1) : Magnitude(s11[r]) < Magnitude(s11[i])
    BY <1>6, <1>7 DEF FirstDeepest
  <1>12. deep # {} => AtMostMinus10dB(s11[r])
    <2> SUFFICES ASSUME NEW i \in DOMAIN s11, AtMostMinus10dB(s11[i])
                 PROVE  AtMostMinus10dB(s11[r])
      OBVIOUS
    <2>1. PICK a \in Int, b \in Int, c \in Int :
            a = Magnitude(s11[r]) /\ b = Magnitude(s11[i]) /\ c = Unit * Unit
      BY <1>6, UnitAssumption
    <2>2. a <= b
      BY <1>11, <2>1
    <2>3. 10 * b <= c
      BY <2>1 DEF AtMostMinus10dB
    <2>4. 10 * a <= c
      BY <2>2, <2>3
    <2> QED
      BY <2>1, <2>4 DEF AtMostMinus10dB
  <1>13. CASE AtMostMinus10dB(s11[r])
    <2>1. deep # {}
      BY <1>6, <1>13
    <2>2. PICK low \in 1..r, high \in r..n :
            /\ DeepFrom(low, s11, r) /\ DeepTo(high, s11, r, n)
            /\ Value("minus_10db_bandwidth", Hz(frequencies[high] - frequencies[low]))
                 \in ToSet(sweep.values)
      BY <1>8, <1>13
    <2>3. ValuesOf(records, "minus_10db_bandwidth") = {Hz(frequencies[high] - frequencies[low])}
      <3>1. frequencies[high] - frequencies[low] \in Int
        <4>1. high \in 1..n /\ low \in 1..n
          OBVIOUS
        <4> QED
          BY <1>6, <4>1
      <3> QED
        BY <1>9, <2>2, <3>1
    <2>4. low..high \subseteq deep
      <3> SUFFICES ASSUME NEW i \in low..high PROVE i \in deep
        OBVIOUS
      <3>1. i \in 1..n
        OBVIOUS
      <3>2. i \in low..(r - 1) \/ i = r \/ i \in (r + 1)..high
        OBVIOUS
      <3>3. AtMostMinus10dB(s11[i])
        BY <1>13, <2>2, <3>2 DEF DeepFrom, DeepTo
      <3> QED
        BY <1>6, <3>1, <3>3
    <2>5. low - 1 \notin deep
      <3>1. low = 1 => low - 1 \notin 1..n
        OBVIOUS
      <3> QED
        BY <1>6, <2>2, <3>1 DEF DeepFrom
    <2>6. high + 1 \notin deep
      <3>1. high = n => high + 1 \notin 1..n
        OBVIOUS
      <3> QED
        BY <1>6, <2>2, <3>1 DEF DeepTo
    <2>7. \E l \in 1..r, h \in r..Len(s11) :
            /\ l..h \subseteq deep
            /\ l - 1 \notin deep /\ h + 1 \notin deep
            /\ ValuesOf(records, "minus_10db_bandwidth") = {Hz(frequencies[h] - frequencies[l])}
      BY <1>6, <2>3, <2>4, <2>5, <2>6
    <2> HIDE DEF deep
    <2> QED
      BY <1>6, <1>10, <1>11, <2>1, <2>7
      DEF BandSurroundsResonance, ValuesOf, frequencies, s11, deep, records
  <1>14. CASE ~ AtMostMinus10dB(s11[r])
    <2>1. deep = {}
      BY <1>12, <1>14
    <2>2. ValuesOf(records, "minus_10db_bandwidth") = {}
      <3>1. "minus_10db_bandwidth" \notin MetricsIn(made.values)
        <4>1. Omission("minus_10db_bandwidth", "no band") \in ToSet(made.omissions)
          BY <1>3, <1>8, <1>14
        <4>2. Omission("minus_10db_bandwidth", "no band").metric = "minus_10db_bandwidth"
          BY DEF Omission
        <4> QED
          BY <1>5, <4>1, <4>2 DEF MetricsIn
      <3>2. \A m \in ToSet(records) : \E e \in ToSet(made.values) : m.metric = e.metric
        BY <1>4 DEF OnRecord, Record
      <3>3. \A m \in ToSet(records) : m.metric # "minus_10db_bandwidth"
        BY <3>1, <3>2 DEF MetricsIn
      <3> QED
        BY <3>3 DEF ValuesOf
    <2> HIDE DEF deep
    <2> QED
      BY <1>6, <1>10, <1>11, <2>1, <2>2
      DEF BandSurroundsResonance, ValuesOf, frequencies, s11, deep, records
  <1> QED
    BY <1>13, <1>14

\* The bandwidth shown is the longest run of samples at or below -10 dB around
\* the first of the deepest samples, whose frequency is the resonance shown;
\* without such a sample none is shown, whatever the sweep
\* (metrics/sparams.py resonant_frequency, minus_10db_bandwidth).
THEOREM BandIsTheRunAround == Spec => []BandSurroundsResonance
  <1>1. PipelineInv => BandSurroundsResonance
    BY BandIsAround
  <1> QED
    BY <1>1, ResultsAreTheirFunctions, PTL
----------------------------------------------------------------------------
(* What travels in a finding: the walk through the objects it reaches.     *)

LEMMA EdgesAreFinite ==
  ASSUME NEW nodes \in SUBSET DOMAIN Heap
  PROVE  IsFiniteSet(EdgesOf(nodes)) /\ Cardinality(EdgesOf(nodes)) \in Nat
  <1> DEFINE edges == [node \in nodes |-> {node} \X DOMAIN Heap[node].holds]
             family == {edges[node] : node \in nodes}
  <1>1. IsFiniteSet(nodes)
    BY HeapAssumption, FS_Subset
  <1>2. edges \in Surjection(nodes, family)
    BY DEF Surjection
  <1>3. \A node \in nodes : IsFiniteSet(edges[node])
    <2> TAKE node \in nodes
    <2>1. PICK n \in Nat : DOMAIN Heap[node].holds = 1..n
      BY HeapAssumption
    <2>2. IsFiniteSet(1..n) /\ IsFiniteSet({node})
      <3>1. 1 \in Int /\ n \in Int
        OBVIOUS
      <3>2. IsFiniteSet(1..n)
        BY <3>1, FS_Interval
      <3> QED
        BY <3>2, FS_Singleton
    <2>3. IsFiniteSet({node} \X (1..n))
      BY <2>2, FS_Product
    <2> QED
      BY <2>1, <2>3
  <1>4. EdgesOf(nodes) = UNION family
    BY DEF EdgesOf
  <1> HIDE DEF edges
  <1>5. \A edge \in family : IsFiniteSet(edge)
    BY <1>3
  <1> HIDE DEF family
  <1>6. IsFiniteSet(family)
    BY <1>1, <1>2, FS_Surjection
  <1>7. IsFiniteSet(UNION family)
    BY <1>5, <1>6, FS_UNION
  <1> QED
    BY <1>4, <1>7, FS_CardinalityType

\* Opening an object uses up as many edges as it holds objects.
LEMMA EdgesOfOne ==
  ASSUME NEW nodes \in SUBSET DOMAIN Heap, NEW node \in nodes
  PROVE  Cardinality(EdgesOf(nodes))
           = Cardinality(EdgesOf(nodes \ {node})) + Len(Heap[node].holds)
  <1> DEFINE rest == EdgesOf(nodes \ {node})
             own == {node} \X DOMAIN Heap[node].holds
  <1>1. PICK n \in Nat : DOMAIN Heap[node].holds = 1..n /\ Len(Heap[node].holds) = n
    BY HeapAssumption
  <1>2. IsFiniteSet(own) /\ Cardinality(own) = n
    <2>1. IsFiniteSet(1..n) /\ Cardinality(1..n) = n
      BY FS_Interval
    <2>2. IsFiniteSet({node}) /\ Cardinality({node}) = 1
      BY FS_Singleton
    <2>3. IsFiniteSet({node} \X (1..n)) /\ Cardinality({node} \X (1..n)) = 1 * n
      BY <2>1, <2>2, FS_Product
    <2> QED
      BY <1>1, <2>3
  <1>3. IsFiniteSet(rest) /\ Cardinality(rest) \in Nat
    BY EdgesAreFinite
  <1>4. rest \cap own = {}
    BY DEF EdgesOf
  <1>5. EdgesOf(nodes) = rest \cup own
    BY DEF EdgesOf
  <1> HIDE DEF rest, own
  <1>6. Cardinality(rest \cup own)
          = Cardinality(rest) + Cardinality(own) - Cardinality(rest \cap own)
    BY <1>2, <1>3, FS_Union
  <1>7. Cardinality(rest \cap own) = 0
    BY <1>4, FS_EmptySet, Zenon DEF rest
  <1>8. Cardinality(EdgesOf(nodes)) = Cardinality(rest \cup own)
    BY <1>5, Zenon DEF rest
  <1>9. Cardinality(EdgesOf(nodes)) = Cardinality(rest) + n
    <2>1. Cardinality(rest) \in Nat
      BY <1>3 DEF rest
    <2> QED
      BY <1>2, <1>6, <1>7, <1>8, <2>1
  <1> QED
    BY <1>1, <1>9 DEF rest

LEMMA ReachedIsClosed ==
  ASSUME NEW root \in DOMAIN Heap
  PROVE  /\ root \in Reached(root)
         /\ Reached(root) \subseteq DOMAIN Heap
         /\ \A node \in Reached(root) : ToSet(Heap[node].holds) \subseteq Reached(root)
  <1>1. root \in Reached(root) /\ Reached(root) \subseteq DOMAIN Heap
    BY DEF Reached
  <1>2. ASSUME NEW node \in Reached(root), NEW held \in ToSet(Heap[node].holds)
        PROVE  held \in Reached(root)
    <2>1. held \in DOMAIN Heap
      <3>1. Heap[node].holds \in Seq(DOMAIN Heap)
        BY <1>1, HeapAssumption
      <3> QED
        BY <3>1 DEF ToSet
    <2>2. ASSUME NEW nodes \in SUBSET DOMAIN Heap, root \in nodes, HoldsItsOwn(nodes)
          PROVE  held \in nodes
      <3>1. node \in nodes
        BY <2>2 DEF Reached
      <3> QED
        BY <1>2, <2>2, <3>1 DEF HoldsItsOwn
    <2> QED
      BY <2>1, <2>2 DEF Reached
  <1> QED
    BY <1>1, <1>2

Inert == {node \in DOMAIN Heap : Heap[node].type = "inert"}

\* An object that is neither plain nor a container of this heap's kinds.
Foreign(node) == Heap[node].type \notin Containers \cup {"inert"}

Walk == [pending : Seq(DOMAIN Heap), seen : SUBSET DOMAIN Heap, found : BOOLEAN]

\* What the walk is at any turn: all it met is reached from the root, and what
\* an opened container holds was opened, is plain, or still pends.
WalkIsHonest(walk, root) ==
  LET met == walk.seen \cup ToSet(walk.pending)
  IN /\ met \subseteq Reached(root)
     /\ root \in met \cup Inert
     /\ \A node \in walk.seen :
          /\ Heap[node].type \in Containers
          /\ ToSet(Heap[node].holds) \subseteq met \cup Inert
     /\ walk.found => \E node \in Reached(root) : Foreign(node)

WalkLeft(walk) == Len(walk.pending) + Cardinality(EdgesOf(DOMAIN Heap \ walk.seen))

LEMMA JoinHolds ==
  ASSUME NEW T, NEW v \in Seq(T), NEW u \in Seq(T)
  PROVE  ToSet(v \o u) = ToSet(v) \cup ToSet(u) /\ v \o u \in Seq(T)
  <1>1. PICK n \in Nat, k \in Nat : Len(v) = n /\ Len(u) = k
    OBVIOUS
  <1>2. /\ v \o u \in Seq(T) /\ Len(v \o u) = n + k
        /\ \A i \in 1..n : (v \o u)[i] = v[i]
        /\ \A i \in 1..k : (v \o u)[n + i] = u[i]
    BY <1>1
  <1>3. DOMAIN (v \o u) = 1..(n + k) /\ DOMAIN v = 1..n /\ DOMAIN u = 1..k
    BY <1>1, <1>2
  <1>4. \A i \in 1..(n + k) : i \in 1..n \/ (i - n \in 1..k /\ i = n + (i - n))
    OBVIOUS
  <1>5. ASSUME NEW x \in ToSet(v \o u) PROVE x \in ToSet(v) \cup ToSet(u)
    BY <1>2, <1>3, <1>4 DEF ToSet
  <1>6. ASSUME NEW x \in ToSet(v) \cup ToSet(u) PROVE x \in ToSet(v \o u)
    <2>1. CASE x \in ToSet(v)
      <3>1. PICK i \in 1..n : x = v[i]
        BY <1>3, <2>1 DEF ToSet
      <3>2. i \in 1..(n + k)
        OBVIOUS
      <3> QED
        BY <1>2, <1>3, <3>1, <3>2 DEF ToSet
    <2>2. CASE x \in ToSet(u)
      <3>1. PICK i \in 1..k : x = u[i]
        BY <1>3, <2>2 DEF ToSet
      <3>2. n + i \in 1..(n + k)
        OBVIOUS
      <3> QED
        BY <1>2, <1>3, <3>1, <3>2 DEF ToSet
    <2> QED
      BY <2>1, <2>2
  <1> QED
    BY <1>2, <1>5, <1>6

\* Popping the last one leaves the others.
LEMMA PopLeaves ==
  ASSUME NEW T, NEW v \in Seq(T), v # <<>>
  PROVE  /\ Last(v) \in T /\ Front(v) \in Seq(T)
         /\ ToSet(v) = ToSet(Front(v)) \cup {Last(v)}
         /\ Len(Front(v)) = Len(v) - 1
  <1>1. PICK n \in Nat : Len(v) = n + 1
    BY \A k \in Nat : k # 0 => k - 1 \in Nat /\ k = (k - 1) + 1
  <1> DEFINE rest == [i \in 1..n |-> v[i]]
  <1>2. Last(v) = v[n + 1] /\ Front(v) = rest
    <2>1. Len(v) - 1 = n
      BY <1>1
    <2> QED
      BY <1>1, <2>1 DEF Last, Front
  <1>3. rest \in Seq(T) /\ Len(rest) = n /\ DOMAIN rest = 1..n /\ DOMAIN v = 1..(n + 1)
    <2>1. DOMAIN v = 1..(n + 1) /\ \A i \in 1..n : v[i] \in T
      BY <1>1
    <2> QED
      BY <2>1
  <1>4. 1..(n + 1) = 1..n \cup {n + 1} /\ \A i \in 1..n : rest[i] = v[i]
    OBVIOUS
  <1>5. ToSet(v) = ToSet(rest) \cup {v[n + 1]}
    <2> HIDE DEF rest
    <2> QED
      BY <1>3, <1>4 DEF ToSet
  <1>6. v[n + 1] \in T
    BY <1>3
  <1> QED
    BY <1>1, <1>2, <1>3, <1>5, <1>6

\* A turn keeps the walk honest and leaves less to do, unless it ends it.
LEMMA WalkGoesOn ==
  ASSUME NEW root \in DOMAIN Heap, NEW walk \in Walk, WalkIsHonest(walk, root),
         ~ walk.found, walk.pending # <<>>
  PROVE  LET next == WalkStep(walk)
         IN /\ next \in Walk
            /\ WalkIsHonest(next, root)
            /\ next.found \/ WalkLeft(next) + 1 <= WalkLeft(walk)
  <1> DEFINE node == Last(walk.pending)
             rest == Front(walk.pending)
             next == WalkStep(walk)
             held == Heap[node].holds
  <1>1. walk.pending \in Seq(DOMAIN Heap) /\ walk.seen \in SUBSET DOMAIN Heap
    BY DEF Walk
  <1>2. /\ node \in DOMAIN Heap /\ rest \in Seq(DOMAIN Heap)
        /\ ToSet(walk.pending) = ToSet(rest) \cup {node}
        /\ Len(rest) = Len(walk.pending) - 1
    BY <1>1, PopLeaves
  <1>3. PICK n \in Nat, k \in Nat, h \in Nat :
           Len(walk.pending) = n + 1 /\ Len(rest) = n /\ Len(held) = h
           /\ k = Cardinality(EdgesOf(DOMAIN Heap \ walk.seen))
    <2>1. Len(held) \in Nat
      BY <1>2, HeapAssumption
    <2>2. Cardinality(EdgesOf(DOMAIN Heap \ walk.seen)) \in Nat
      BY EdgesAreFinite
    <2>3. PICK n \in Nat : n = Len(rest)
      BY <1>2
    <2>4. Len(walk.pending) = n + 1
      BY <1>1, <1>2, <2>3
    <2> QED
      BY <2>1, <2>2, <2>3, <2>4
  <1>4. held \in Seq(DOMAIN Heap)
    BY <1>2, HeapAssumption
  <1>5. node \in Reached(root)
    BY <1>2 DEF WalkIsHonest
  <1>6. ToSet(held) \subseteq Reached(root)
    BY <1>5, ReachedIsClosed
  <1> HIDE DEF node, rest, held
  <1>7. CASE Heap[node].type \in Containers /\ node \in walk.seen
    <2>1. next = [walk EXCEPT !.pending = rest]
      BY <1>7 DEF WalkStep, node, rest
    <2>2. /\ next \in Walk /\ next.pending = rest /\ next.seen = walk.seen
          /\ next.found = walk.found
      BY <1>2, <2>1 DEF Walk
    <2> HIDE DEF next
    <2>3. next.seen \cup ToSet(next.pending) = walk.seen \cup ToSet(walk.pending)
      BY <1>2, <1>7, <2>2
    <2>4. WalkIsHonest(next, root)
      BY <2>2, <2>3 DEF WalkIsHonest
    <2>5. WalkLeft(next) + 1 <= WalkLeft(walk)
      BY <1>3, <2>2 DEF WalkLeft
    <2> QED
      BY <2>2, <2>4, <2>5 DEF next
  <1>8. CASE Heap[node].type \in Containers /\ node \notin walk.seen
    <2>2. /\ ToSet(rest \o held) = ToSet(rest) \cup ToSet(held)
          /\ rest \o held \in Seq(DOMAIN Heap)
      BY <1>2, <1>4, JoinHolds
    <2>3. Len(rest \o held) = n + h
      BY <1>2, <1>3, <1>4
    <2> DEFINE joined == rest \o held
    <2>1. joined \in Seq(DOMAIN Heap)
      BY <2>2
    <2> DEFINE popped == [walk EXCEPT !.pending = joined]
               opened == [walk EXCEPT !.pending = joined, !.seen = @ \cup {node}]
               passed == [walk EXCEPT !.pending = rest]
               ended == [walk EXCEPT !.found = TRUE]
    <2>10. next = opened
      <3>1. next = CASE Heap[node].type \in Containers /\ node \in walk.seen -> passed
                     [] Heap[node].type \in Containers /\ node \notin walk.seen -> opened
                     [] Heap[node].type = "inert" -> passed
                     [] OTHER -> ended
        BY Zenon DEF WalkStep, node, rest, held
      <3> HIDE DEF next, opened, passed, ended
      <3> QED
        BY <1>8, <3>1 DEF Containers
    <2> HIDE DEF joined
    <2>12. /\ popped \in Walk /\ popped.pending = joined /\ popped.seen = walk.seen
           /\ popped.found = walk.found
      BY <2>1 DEF Walk
    <2>13. opened = [popped EXCEPT !.seen = walk.seen \cup {node}]
      OBVIOUS
    <2> HIDE DEF popped, opened
    <2>14. /\ opened \in Walk /\ opened.pending = joined
           /\ opened.seen = walk.seen \cup {node} /\ opened.found = walk.found
      BY <1>2, <2>12, <2>13 DEF Walk
    <2>4. /\ next \in Walk /\ next.pending = joined /\ next.seen = walk.seen \cup {node}
          /\ next.found = walk.found
      BY <2>10, <2>14
    <2> HIDE DEF next
    <2>5. next.seen \cup ToSet(next.pending)
            = walk.seen \cup ToSet(walk.pending) \cup ToSet(held)
      BY <1>2, <2>2, <2>4 DEF joined
    <2>6. WalkIsHonest(next, root)
      BY <1>6, <1>8, <2>4, <2>5 DEF WalkIsHonest, held
    <2>7. Cardinality(EdgesOf(DOMAIN Heap \ next.seen)) \in Nat
      BY EdgesAreFinite
    <2>8. k = Cardinality(EdgesOf(DOMAIN Heap \ next.seen)) + h
      <3> DEFINE left == DOMAIN Heap \ walk.seen
      <3>1. left \in SUBSET DOMAIN Heap /\ node \in left
            /\ left \ {node} = DOMAIN Heap \ next.seen
        BY <1>2, <1>8, <2>4
      <3>2. Cardinality(EdgesOf(left))
              = Cardinality(EdgesOf(left \ {node})) + Len(Heap[node].holds)
        BY <3>1, EdgesOfOne
      <3> QED
        BY <1>3, <3>1, <3>2 DEF held
    <2>9. WalkLeft(walk) = (n + 1) + k
          /\ WalkLeft(next) = (n + h) + Cardinality(EdgesOf(DOMAIN Heap \ next.seen))
      BY <1>3, <2>3, <2>4 DEF WalkLeft, joined
    <2>11. WalkLeft(next) + 1 <= WalkLeft(walk)
      BY <1>3, <2>7, <2>8, <2>9
    <2> QED
      BY <2>4, <2>6, <2>11 DEF next
  <1>9. CASE Heap[node].type = "inert"
    <2>1. next = [walk EXCEPT !.pending = rest]
      BY <1>9 DEF WalkStep, node, rest, Containers
    <2>2. /\ next \in Walk /\ next.pending = rest /\ next.seen = walk.seen
          /\ next.found = walk.found
      BY <1>2, <2>1 DEF Walk
    <2> HIDE DEF next
    <2>3. node \in Inert
      BY <1>2, <1>9 DEF Inert
    <2>4. /\ next.seen \cup ToSet(next.pending) \subseteq walk.seen \cup ToSet(walk.pending)
          /\ walk.seen \cup ToSet(walk.pending)
               \subseteq (next.seen \cup ToSet(next.pending)) \cup Inert
      BY <1>2, <2>2, <2>3
    <2>5. WalkIsHonest(next, root)
      BY <2>2, <2>4 DEF WalkIsHonest
    <2>6. WalkLeft(next) + 1 <= WalkLeft(walk)
      BY <1>3, <2>2 DEF WalkLeft
    <2> QED
      BY <2>2, <2>5, <2>6 DEF next
  <1>10. CASE Foreign(node)
    <2>1. next = [walk EXCEPT !.found = TRUE]
      BY <1>10 DEF WalkStep, node, Foreign
    <2>2. /\ next \in Walk /\ next.pending = walk.pending /\ next.seen = walk.seen
          /\ next.found
      BY <2>1 DEF Walk
    <2> HIDE DEF next
    <2>3. WalkIsHonest(next, root)
      BY <1>5, <1>10, <2>2 DEF WalkIsHonest
    <2> QED
      BY <2>2, <2>3 DEF next
  <1> QED
    BY <1>7, <1>8, <1>9, <1>10 DEF Foreign

WalkStart(root) == [pending |-> <<root>>, seen |-> {}, found |-> FALSE]

\* One turn, or none when there is nothing left to do.
WalkOn(walk) ==
  IF walk.pending = <<>> \/ walk.found THEN walk ELSE WalkStep(walk)

WalkLoop(f, start, n) == f = [i \in 0..n |-> IF i = 0 THEN start ELSE WalkOn(f[i - 1])]

WalkAlong(f, start, n, V) ==
  /\ f[0] = start
  /\ \A i \in 1..n : f[i] = WalkOn(f[i - 1])
  /\ \A i \in 0..n : f[i] \in V

\* The loop of the walk runs, and every run of it goes turn by turn.
LEMMA WalkLoopRuns ==
  ASSUME NEW V, NEW start \in V, NEW n \in Nat, \A v \in V : WalkOn(v) \in V
  PROVE  /\ \E f : WalkLoop(f, start, n)
         /\ \A f : WalkLoop(f, start, n) => WalkAlong(f, start, n, V)
  <1> DEFINE G == [x \in (1..n) \X V |-> WalkOn(x[2])]
  <1>1. \A i \in 1..n, v \in V : G[<<i, v>>] = WalkOn(v) /\ G[<<i, v>>] \in V
    OBVIOUS
  <1> HIDE DEF G
  <1>2. PICK f : Turns(f, n, start, G) /\ Along(f, n, start, G, V)
    BY <1>1, TurnsExist
  <1>3. WalkAlong(f, start, n, V)
    <2>1. f[0] = start /\ \A i \in 0..n : f[i] \in V
      BY <1>2 DEF Along
    <2>2. \A i \in 1..n : i - 1 \in 0..n
      OBVIOUS
    <2>3. \A i \in 1..n : f[i] = WalkOn(f[i - 1])
      BY <1>1, <1>2, <2>1, <2>2 DEF Along
    <2> QED
      BY <2>1, <2>3 DEF WalkAlong
  <1>4. WalkLoop(f, start, n)
    <2>1. f = [i \in 0..n |-> f[i]]
      BY <1>2 DEF Turns
    <2>2. \A i \in 0..n : f[i] = IF i = 0 THEN start ELSE WalkOn(f[i - 1])
      BY <1>3 DEF WalkAlong
    <2> QED
      BY <2>1, <2>2 DEF WalkLoop
  <1>5. ASSUME NEW g, WalkLoop(g, start, n)
        PROVE  WalkAlong(g, start, n, V)
    <2>1. \A i \in 0..n : g[i] = IF i = 0 THEN start ELSE WalkOn(g[i - 1])
      BY <1>5 DEF WalkLoop
    <2>2. g[0] = start /\ \A i \in 1..n : g[i] = WalkOn(g[i - 1])
      BY <2>1
    <2>3. \A i \in 1..n : f[i - 1] = g[i - 1] => f[i] = g[i]
      BY <1>3, <2>2 DEF WalkAlong
    <2>4. \A i \in 0..n : f[i] = g[i]
      BY <1>3, <2>2, <2>3, SameTurns DEF WalkAlong
    <2> QED
      BY <1>3, <2>2, <2>4 DEF WalkAlong
  <1> QED
    BY <1>4, <1>5

\* The walk finds something exactly when there is something to find: it ends
\* within its turns, whatever is nested in what, and around any cycle.
LEMMA WalkFindsTheForeign ==
  ASSUME NEW root \in DOMAIN Heap
  PROVE  CarriesNonInert(root) <=> \E node \in Reached(root) : Foreign(node)
  <1> DEFINE V == {walk \in Walk : WalkIsHonest(walk, root)}
             start == WalkStart(root)
  <1>1. PICK n \in Nat : n = HeapEdges + 1
    <2>1. HeapEdges \in Nat
      BY EdgesAreFinite DEF HeapEdges
    <2> QED
      BY <2>1
  <1>2. /\ start \in V
        /\ start.pending = <<root>> /\ start.seen = {} /\ start.found = FALSE
    <2>1. /\ start \in Walk
          /\ start.pending = <<root>> /\ start.seen = {} /\ start.found = FALSE
      BY DEF Walk, WalkStart
    <2>2. ToSet(<<root>>) = {root}
      BY DEF ToSet
    <2> HIDE DEF start
    <2>3. WalkIsHonest(start, root)
      BY <2>1, <2>2, ReachedIsClosed DEF WalkIsHonest
    <2> QED
      BY <2>1, <2>3
  <1>3. \A v \in V : WalkOn(v) \in V
    <2> TAKE v \in V
    <2>1. CASE v.pending = <<>> \/ v.found
      BY <2>1 DEF WalkOn
    <2>2. CASE ~ (v.pending = <<>> \/ v.found)
      BY <2>2, WalkGoesOn DEF WalkOn
    <2> QED
      BY <2>1, <2>2
  <1> DEFINE f == CHOOSE g : WalkLoop(g, start, n)
  <1>4. CarriesNonInert(root) = f[n].found
    BY <1>1 DEF CarriesNonInert, WalkLoop, WalkOn, WalkStart
  <1> HIDE DEF V, start
  <1>5. WalkLoop(f, start, n)
    BY <1>2, <1>3, WalkLoopRuns
  <1> HIDE DEF f
  <1>6. WalkAlong(f, start, n, V)
    BY <1>2, <1>3, <1>5, WalkLoopRuns
  <1> DEFINE Ended(walk) == walk.pending = <<>> \/ walk.found
             S == {k \in Nat : k <= n => Ended(f[k]) \/ WalkLeft(f[k]) + k <= n}
  <1>7. 0 \in S
    <2>1. f[0] = start
      BY <1>6 DEF WalkAlong
    <2>2. DOMAIN Heap \ {} = DOMAIN Heap
      OBVIOUS
    <2>3. WalkLeft(start) = 1 + HeapEdges
      <3>1. Len(<<root>>) = 1
        OBVIOUS
      <3> QED
        BY <1>2, <2>2, <3>1 DEF WalkLeft, HeapEdges
    <2>4. HeapEdges \in Nat
      BY EdgesAreFinite DEF HeapEdges
    <2> QED
      BY <1>1, <2>1, <2>3, <2>4
  <1>8. ASSUME NEW k \in Nat, k \in S PROVE k + 1 \in S
    <2> SUFFICES ASSUME k + 1 <= n
                 PROVE  Ended(f[k + 1]) \/ WalkLeft(f[k + 1]) + (k + 1) <= n
      OBVIOUS
    <2>1. f[k + 1] = WalkOn(f[k]) /\ f[k] \in V /\ f[k + 1] \in V
      <3>1. k \in 0..n /\ k + 1 \in 0..n /\ k + 1 \in 1..n /\ (k + 1) - 1 = k
        OBVIOUS
      <3> QED
        BY <1>6, <3>1 DEF WalkAlong
    <2>2. CASE Ended(f[k])
      BY <2>1, <2>2 DEF WalkOn
    <2>3. CASE ~ Ended(f[k])
      <3>1. WalkLeft(f[k]) + k <= n
        BY <1>8, <2>3
      <3>2. f[k + 1] = WalkStep(f[k])
        BY <2>1, <2>3 DEF WalkOn
      <3>3. f[k + 1].found \/ WalkLeft(f[k + 1]) + 1 <= WalkLeft(f[k])
        BY <2>1, <2>3, <3>2, WalkGoesOn DEF V
      <3>4. ASSUME NEW walk \in V PROVE WalkLeft(walk) \in Nat
        <4>1. Cardinality(EdgesOf(DOMAIN Heap \ walk.seen)) \in Nat
          BY EdgesAreFinite
        <4>2. Len(walk.pending) \in Nat
          BY DEF V, Walk
        <4> QED
          BY <4>1, <4>2 DEF WalkLeft
      <3>5. WalkLeft(f[k]) \in Nat /\ WalkLeft(f[k + 1]) \in Nat
        BY <2>1, <3>4
      <3> QED
        BY <3>1, <3>3, <3>5
    <2> QED
      BY <2>2, <2>3
  <1> HIDE DEF S
  <1>9. Nat \subseteq S
    BY <1>7, <1>8, NatSetInduction
  <1>10. f[n] \in V
    BY <1>6 DEF WalkAlong
  <1>11. f[n] \in Walk /\ WalkIsHonest(f[n], root)
    BY <1>10 DEF V
  <1>12. Ended(f[n])
    <2>1. Ended(f[n]) \/ WalkLeft(f[n]) + n <= n
      BY <1>9 DEF S
    <2>2. Cardinality(EdgesOf(DOMAIN Heap \ f[n].seen)) \in Nat
      BY EdgesAreFinite
    <2>3. PICK pending \in Seq(DOMAIN Heap) : pending = f[n].pending
      BY <1>11 DEF Walk
    <2>4. PICK left \in Nat : left = Len(pending)
      OBVIOUS
    <2>5. WalkLeft(f[n]) = left + Cardinality(EdgesOf(DOMAIN Heap \ f[n].seen))
      BY <2>3, <2>4 DEF WalkLeft
    <2>6. CASE WalkLeft(f[n]) + n <= n
      <3>1. left = 0
        BY <2>2, <2>5, <2>6
      <3>2. pending = <<>>
        <4>1. \A T : \A v \in Seq(T) : Len(v) = 0 => v = <<>>
          OBVIOUS
        <4> QED
          BY <2>4, <3>1, <4>1
      <3> QED
        BY <2>3, <3>2
    <2> QED
      BY <2>1, <2>6
  <1>13. CASE f[n].found
    BY <1>4, <1>11, <1>13 DEF WalkIsHonest
  <1>14. CASE ~ f[n].found
    <2> DEFINE nodes == f[n].seen \cup Inert
    <2>1. f[n].pending = <<>> /\ ToSet(<<>>) = {}
      BY <1>12, <1>14 DEF ToSet
    <2>2. /\ root \in nodes
          /\ \A node \in f[n].seen : /\ Heap[node].type \in Containers
                                     /\ ToSet(Heap[node].holds) \subseteq nodes
      BY <1>11, <2>1 DEF WalkIsHonest
    <2>3. nodes \in SUBSET DOMAIN Heap
      BY <1>11 DEF Walk, Inert
    <2>4. HoldsItsOwn(nodes)
      <3>1. \A node \in Inert : ToSet(Heap[node].holds) = {}
        BY <2>1, HeapAssumption DEF Inert, Containers
      <3> QED
        BY <2>2, <3>1 DEF HoldsItsOwn
    <2>5. Reached(root) \subseteq nodes
      BY <2>2, <2>3, <2>4 DEF Reached
    <2>6. \A node \in nodes : ~ Foreign(node)
      BY <2>2 DEF Inert, Foreign
    <2> QED
      BY <1>4, <1>14, <2>5, <2>6
  <1> QED
    BY <1>13, <1>14

\* An object that holds nothing reaches itself alone.
LEMMA InertReachesItself ==
  Reached(InertNode) = {InertNode} /\ ~ Foreign(InertNode) /\ ~ CarriesNonInert(InertNode)
  <1>1. Heap[InertNode].holds = <<>> /\ InertNode \in DOMAIN Heap
    BY HeapAssumption, InertNodeAssumption DEF Containers
  <1>2. ToSet(<<>>) = {}
    BY DEF ToSet
  <1>3. HoldsItsOwn({InertNode})
    BY <1>1, <1>2 DEF HoldsItsOwn
  <1>4. Reached(InertNode) \subseteq {InertNode}
    <2>1. {InertNode} \in SUBSET DOMAIN Heap
      BY <1>1
    <2> QED
      BY <1>3, <2>1 DEF Reached
  <1>5. Reached(InertNode) = {InertNode}
    BY <1>1, <1>4, ReachedIsClosed
  <1>6. ~ Foreign(InertNode)
    BY InertNodeAssumption DEF Foreign
  <1> QED
    BY <1>1, <1>5, <1>6, WalkFindsTheForeign

\* Every arrival is one of the two streams' findings.
LEMMA ArrivalsAreOfTheStreams ==
  ASSUME NEW C, NEW gateFindings \in Seq(C), NEW E, NEW engineFindings \in Seq(E),
         NEW a \in ToSet(Arrivals(gateFindings, engineFindings))
  PROVE  \/ /\ a.stream = GateStream
            /\ \E i \in DOMAIN gateFindings : a.candidate = gateFindings[i]
         \/ /\ a.stream = EngineStream
            /\ \E i \in DOMAIN engineFindings : a.candidate = engineFindings[i]
  <1> DEFINE g == [i \in DOMAIN gateFindings |->
                     [candidate |-> gateFindings[i], stream |-> GateStream,
                      position |-> i - 1]]
             e == [i \in DOMAIN engineFindings |->
                     [candidate |-> engineFindings[i], stream |-> EngineStream,
                      position |-> i - 1]]
             T == ToSet(g) \cup ToSet(e)
  <1>1. PICK n \in Nat, m \in Nat : DOMAIN gateFindings = 1..n /\ DOMAIN engineFindings = 1..m
    OBVIOUS
  <1>2. /\ \A x \in ToSet(g) : /\ x.stream = GateStream
                               /\ \E i \in DOMAIN gateFindings : x.candidate = gateFindings[i]
        /\ \A x \in ToSet(e) : /\ x.stream = EngineStream
                               /\ \E i \in DOMAIN engineFindings : x.candidate = engineFindings[i]
    BY DEF ToSet
  <1>3. g = [i \in 1..n |-> g[i]] /\ e = [i \in 1..m |-> e[i]]
    BY <1>1
  <1>4. (\A i \in 1..n : g[i] \in ToSet(g)) /\ (\A i \in 1..m : e[i] \in ToSet(e))
    BY <1>1 DEF ToSet
  <1>5. Arrivals(gateFindings, engineFindings) = g \o e
    BY DEF Arrivals
  <1> HIDE DEF g, e
  <1>6. (\A i \in 1..n : g[i] \in T) /\ (\A i \in 1..m : e[i] \in T)
    BY <1>4
  <1> HIDE DEF T
  <1>7. g \in Seq(T) /\ e \in Seq(T)
    BY <1>3, <1>6, SequenceOf
  <1>8. ToSet(g \o e) = ToSet(g) \cup ToSet(e)
    BY <1>7, JoinHolds
  <1>9. a \in ToSet(g) \cup ToSet(e)
    BY <1>5, <1>8, Zenon
  <1> QED
    BY <1>2, <1>9

\* What the lists of a merge hold, of which arrivals.
LEMMA MergeHolds ==
  ASSUME NEW C, NEW gateFindings \in Seq(C), NEW E, NEW engineFindings \in Seq(E)
  PROVE  LET came == Arrivals(gateFindings, engineFindings)
             verdict == MergeFindings(gateFindings, engineFindings)
         IN /\ \A i \in DOMAIN verdict.accepted :
                 \E a \in ToSet(came) :
                   /\ Reason(a.candidate, a.stream) = None
                   /\ verdict.accepted[i] = AcceptedFinding(a.candidate, a.stream, a.position)
            /\ \A i \in DOMAIN verdict.rejected :
                 \E a \in ToSet(came) :
                   /\ Reason(a.candidate, a.stream) # None
                   /\ verdict.rejected[i] =
                        RejectedFinding(a.candidate, a.stream, a.position,
                                        Reason(a.candidate, a.stream))
  <1> DEFINE came == Arrivals(gateFindings, engineFindings)
             verdict == MergeFindings(gateFindings, engineFindings)
             passed == {i \in DOMAIN came : Reason(came[i].candidate, came[i].stream) = None}
             kept == Kept(came, passed)
             refused == Kept(came, DOMAIN came \ passed)
             accepted == [i \in DOMAIN kept |->
               AcceptedFinding(kept[i].candidate, kept[i].stream, kept[i].position)]
             rejected == [i \in DOMAIN refused |->
               RejectedFinding(refused[i].candidate, refused[i].stream, refused[i].position,
                               Reason(refused[i].candidate, refused[i].stream))]
  <1>1. verdict.accepted = accepted /\ verdict.rejected = rejected
    BY DEF MergeFindings
  <1>2. came \in Seq(ToSet(came))
    BY ArrivalsInOrder
  <1>3. /\ \A i \in passed \cap DOMAIN came :
             came[i] \in ToSet(came) /\ Reason(came[i].candidate, came[i].stream) = None
        /\ \A i \in (DOMAIN came \ passed) \cap DOMAIN came :
             came[i] \in ToSet(came) /\ Reason(came[i].candidate, came[i].stream) # None
    BY DEF ToSet
  <1> HIDE DEF came, verdict, passed
  <1>4. /\ ToSet(kept) = {came[i] : i \in passed \cap DOMAIN came}
        /\ ToSet(refused) = {came[i] : i \in (DOMAIN came \ passed) \cap DOMAIN came}
    BY <1>2, KeptHolds
  <1>5. /\ \A i \in DOMAIN kept : kept[i] \in ToSet(kept)
        /\ \A i \in DOMAIN refused : refused[i] \in ToSet(refused)
    BY DEF ToSet
  <1>6. /\ \A i \in DOMAIN kept : /\ kept[i] \in ToSet(came)
                                  /\ Reason(kept[i].candidate, kept[i].stream) = None
        /\ \A i \in DOMAIN refused : /\ refused[i] \in ToSet(came)
                                     /\ Reason(refused[i].candidate, refused[i].stream) # None
    BY <1>3, <1>4, <1>5
  <1> HIDE DEF kept, refused
  <1>7. \A i \in DOMAIN accepted :
          \E a \in ToSet(came) :
            /\ Reason(a.candidate, a.stream) = None
            /\ accepted[i] = AcceptedFinding(a.candidate, a.stream, a.position)
    BY <1>6
  <1>8. \A i \in DOMAIN rejected :
          \E a \in ToSet(came) :
            /\ Reason(a.candidate, a.stream) # None
            /\ rejected[i] = RejectedFinding(a.candidate, a.stream, a.position,
                                             Reason(a.candidate, a.stream))
    BY <1>6
  <1> HIDE DEF accepted, rejected
  <1> QED
    BY <1>1, <1>7, <1>8 DEF came, verdict

\* What a candidate is that nothing is said against.
LEMMA AcceptedIsPlain ==
  ASSUME NEW candidate, NEW stream, Reason(candidate, stream) = None,
         CandidateOK(candidate)
  PROVE  /\ candidate.source = stream
         /\ candidate.evidence = EvidenceFields
         /\ \A node \in Reached(candidate.observed_values) \cup Reached(candidate.conditions) :
              ~ Foreign(node)
  <1>1. RejectionReason(candidate) = None /\ candidate.source = stream
    BY AcceptanceAssumption DEF Reason, SourceMismatch, RejectionReasons
  <1>2. /\ candidate.class = "Finding" /\ candidate.validates = "ok"
        /\ NonInertFields(candidate) = {} /\ EmptyEvidence(candidate) = {}
    BY <1>1, AcceptanceAssumption DEF RejectionReason, RejectionReasons
  <1>3. /\ candidate.observed_values \in DOMAIN Heap /\ candidate.conditions \in DOMAIN Heap
        /\ candidate.evidence \subseteq EvidenceFields
    BY <1>2 DEF CandidateOK
  <1>4. ~ CarriesNonInert(candidate["observed_values"])
        /\ ~ CarriesNonInert(candidate["conditions"])
    BY <1>2 DEF NonInertFields
  <1>5. candidate.evidence = EvidenceFields
    BY <1>2, <1>3 DEF EmptyEvidence
  <1>6. /\ \A node \in Reached(candidate.observed_values) : ~ Foreign(node)
        /\ \A node \in Reached(candidate.conditions) : ~ Foreign(node)
    BY <1>3, <1>4, WalkFindsTheForeign
  <1> QED
    BY <1>1, <1>5, <1>6

\* The gates' findings: each shows something, and only freshness of a solve
\* state that was read shows objects as they came.
GateShows(finding, snap) ==
  /\ finding.source = GateStream
  /\ DOMAIN finding.observed # {}
  /\ "available_signals" \in DOMAIN finding.observed =>
       /\ IsRead(snap.solve_state)
       /\ finding.observed.available_signals = snap.solve_state.available_signals

LEMMA GatesShow ==
  ASSUME NEW snap, NEW parameter
  PROVE  /\ GateShows(SolutionExists(snap), snap) /\ GateShows(Convergence(snap), snap)
         /\ GateShows(Freshness(snap), snap)
         /\ GateShows(TargetCoverage(snap, parameter), snap)
  <1>1. ASSUME NEW gate, NEW outcome, NEW conditions, NEW observed, DOMAIN observed # {},
               "available_signals" \in DOMAIN observed =>
                 /\ IsRead(snap.solve_state)
                 /\ observed.available_signals = snap.solve_state.available_signals
        PROVE  GateShows(GateFinding(snap, gate, outcome, conditions, observed), snap)
    BY <1>1 DEF GateShows, GateFinding, GateStream
  <1>2. GateShows(SolutionExists(snap), snap)
    BY <1>1 DEF SolutionExists, SolutionExistsFromState, SolutionExistsFromAbsence
  <1>3. GateShows(Convergence(snap), snap)
    BY <1>1 DEF Convergence, ConvergenceFromState, ConvergenceFromAbsence
  <1>4. GateShows(Freshness(snap), snap)
    BY <1>1 DEF Freshness, FreshnessFromState, FreshnessFromAbsence
  <1>5. GateShows(TargetCoverage(snap, parameter), snap)
    BY <1>1 DEF TargetCoverage, CoverageFromData, CoverageFromAbsence, TargetEvidence
  <1> QED
    BY <1>2, <1>3, <1>4, <1>5

\* A gate's finding passes, or is refused for the objects it brought.
LEMMA GateFindingIsPlain ==
  ASSUME NEW finding, NEW snap, GateShows(finding, snap),
         IsRead(snap.solve_state) => snap.solve_state.available_signals \in DOMAIN Heap
  PROVE  LET candidate == AsCandidate(finding)
         IN /\ CandidateOK(candidate)
            /\ Reason(candidate, GateStream) # None =>
                 /\ Reason(candidate, GateStream) = "non_inert_value"
                 /\ IsRead(snap.solve_state)
                 /\ \E node \in Reached(snap.solve_state.available_signals) : Foreign(node)
  <1> DEFINE candidate == AsCandidate(finding)
             signals == "available_signals" \in DOMAIN finding.observed
  <1>1. /\ candidate.class = "Finding" /\ candidate.reduces = "plain"
        /\ candidate.validates = "ok" /\ candidate.source = GateStream
        /\ candidate.conditions = InertNode /\ candidate.evidence = EvidenceFields
        /\ candidate.observed_values
             = IF signals THEN finding.observed.available_signals ELSE InertNode
        /\ candidate["conditions"] = candidate.conditions
        /\ candidate["observed_values"] = candidate.observed_values
    BY DEF AsCandidate, GateShows
  <1> HIDE DEF candidate
  <1>2. candidate.observed_values \in DOMAIN Heap
    BY <1>1, InertNodeAssumption DEF GateShows
  <1>3. CandidateOK(candidate)
    BY <1>1, <1>2, InertNodeAssumption DEF CandidateOK
  <1>4. EmptyEvidence(candidate) = {}
    BY <1>1 DEF EmptyEvidence
  <1>5. ASSUME Reason(candidate, GateStream) # None
        PROVE  /\ Reason(candidate, GateStream) = "non_inert_value"
               /\ IsRead(snap.solve_state)
               /\ \E node \in Reached(snap.solve_state.available_signals) : Foreign(node)
    <2>1. RejectionReason(candidate)
            = IF NonInertFields(candidate) # {} THEN "non_inert_value" ELSE None
      BY <1>1, <1>4 DEF RejectionReason
    <2>2. /\ NonInertFields(candidate) # {}
          /\ Reason(candidate, GateStream) = "non_inert_value"
      BY <1>1, <1>5, <2>1 DEF Reason, SourceMismatch
    <2>3. CarriesNonInert(candidate.observed_values)
      BY <1>1, <2>2, InertReachesItself DEF NonInertFields
    <2>4. signals /\ candidate.observed_values = snap.solve_state.available_signals
          /\ IsRead(snap.solve_state)
      BY <1>1, <2>3, InertReachesItself DEF GateShows
    <2> QED
      BY <1>2, <2>2, <2>3, <2>4, WalkFindsTheForeign
  <1> QED
    BY <1>3, <1>5 DEF candidate

LEMMA ValuesTravel ==
  ASSUME PipelineInv
  PROVE  OnlyValuesTravel
  <1> SUFFICES ASSUME receipt # None PROVE OnlyValuesTravel
    BY DEF OnlyValuesTravel
  <1> DEFINE candidates == [i \in DOMAIN gates |-> AsCandidate(gates[i])]
             came == Arrivals(candidates, request.engine)
  <1>1. phase \in Judged /\ receipt = MergeFindings(candidates, request.engine)
    BY DEF PipelineInv, PhasesAgree, ResultsAgree, Judged
  <1>2. /\ snapshot = AssembleSnapshot(request.held, "snap")
        /\ snapshot.arm = "DesignSnapshot"
        /\ RequestOK(request)
    BY <1>1, RequestsAssumption DEF PipelineInv, ResultsAgree, Judged
  <1>3. snapshot.solve_state = request.held.solve_state
    BY <1>2, SnapshotHoldsThePieces
  <1>4. IsRead(snapshot.solve_state) =>
          snapshot.solve_state.available_signals \in DOMAIN Heap
    BY <1>2, <1>3 DEF RequestOK
  <1>5. /\ DOMAIN gates = 1..4
        /\ \A i \in 1..4 : GateShows(gates[i], snapshot)
    <2>1. /\ DOMAIN gates = 1..4
          /\ gates[1] = SolutionExists(snapshot) /\ gates[2] = Convergence(snapshot)
          /\ gates[3] = Freshness(snapshot)
          /\ gates[4] = TargetCoverage(snapshot, request.parameter)
      BY <1>1, JudgedHoldsThePieces
    <2>2. \A i \in 1..4 : i = 1 \/ i = 2 \/ i = 3 \/ i = 4
      OBVIOUS
    <2> QED
      BY <2>1, <2>2, GatesShow
  <1>6. /\ DOMAIN candidates = 1..4
        /\ \A i \in 1..4 : candidates[i] = AsCandidate(gates[i])
    BY <1>5
  <1>7. request.engine \in Seq(ToSet(request.engine))
        /\ \A i \in DOMAIN request.engine : CandidateOK(request.engine[i])
    BY <1>2 DEF RequestOK
  <1>8. candidates \in Seq(ToSet(candidates))
    <2>1. candidates = [i \in 1..4 |-> candidates[i]]
      BY <1>5
    <2> HIDE DEF candidates
    <2>2. \A i \in 1..4 : candidates[i] \in ToSet(candidates)
      BY <1>6 DEF ToSet
    <2> QED
      BY <2>1, <2>2, SequenceOf
  <1> HIDE DEF candidates
  <1>9. ASSUME NEW a \in ToSet(came)
        PROVE  /\ CandidateOK(a.candidate)
               /\ a.stream = GateStream /\ Reason(a.candidate, a.stream) # None =>
                    /\ Reason(a.candidate, a.stream) = "non_inert_value"
                    /\ IsRead(snapshot.solve_state)
                    /\ \E node \in Reached(snapshot.solve_state.available_signals) :
                         Foreign(node)
    <2>1. \/ a.stream = GateStream /\ \E i \in DOMAIN candidates : a.candidate = candidates[i]
          \/ /\ a.stream = EngineStream
             /\ \E i \in DOMAIN request.engine : a.candidate = request.engine[i]
      BY <1>7, <1>8, ArrivalsAreOfTheStreams
    <2>2. GateStream # EngineStream
      BY DEF GateStream, EngineStream
    <2>3. CASE a.stream = EngineStream
      BY <1>7, <2>1, <2>2, <2>3
    <2>4. CASE a.stream = GateStream
      <3>1. PICK i \in 1..4 : a.candidate = AsCandidate(gates[i])
        BY <1>6, <2>1, <2>2, <2>4
      <3> QED
        BY <1>4, <1>5, <2>4, <3>1, GateFindingIsPlain
    <2> QED
      BY <2>1, <2>3, <2>4
  <1>10. /\ \A i \in DOMAIN receipt.accepted :
              \E a \in ToSet(came) :
                /\ Reason(a.candidate, a.stream) = None
                /\ receipt.accepted[i] = AcceptedFinding(a.candidate, a.stream, a.position)
         /\ \A i \in DOMAIN receipt.rejected :
              \E a \in ToSet(came) :
                /\ Reason(a.candidate, a.stream) # None
                /\ receipt.rejected[i] = RejectedFinding(a.candidate, a.stream, a.position,
                                                         Reason(a.candidate, a.stream))
    BY <1>1, <1>7, <1>8, MergeHolds
  <1> HIDE DEF came
  <1>11. ASSUME NEW i \in DOMAIN receipt.accepted
         PROVE  LET finding == receipt.accepted[i]
                IN /\ \A node \in Reached(finding.observed_values) \cup Reached(finding.conditions) :
                        ~ Foreign(node)
                   /\ finding.source = finding.arrived_on
                   /\ finding.evidence = EvidenceFields
    <2>1. PICK a \in ToSet(came) :
             /\ Reason(a.candidate, a.stream) = None
             /\ receipt.accepted[i] = AcceptedFinding(a.candidate, a.stream, a.position)
      BY <1>10
    <2>2. CandidateOK(a.candidate)
      BY <1>9
    <2> DEFINE finding == AcceptedFinding(a.candidate, a.stream, a.position)
    <2>3. /\ finding.source = a.candidate.source /\ finding.arrived_on = a.stream
          /\ finding.evidence = a.candidate.evidence
          /\ finding.observed_values = a.candidate.observed_values
          /\ finding.conditions = a.candidate.conditions
      BY DEF AcceptedFinding
    <2> HIDE DEF finding
    <2> QED
      BY <2>1, <2>2, <2>3, AcceptedIsPlain DEF finding
  <1>12. ASSUME NEW i \in DOMAIN receipt.rejected,
                receipt.rejected[i].arrived_on = GateStream
         PROVE  /\ receipt.rejected[i].reason = "non_inert_value"
                /\ IsRead(snapshot.solve_state)
                /\ \E node \in Reached(snapshot.solve_state.available_signals) : Foreign(node)
    <2>1. PICK a \in ToSet(came) :
             /\ Reason(a.candidate, a.stream) # None
             /\ receipt.rejected[i] = RejectedFinding(a.candidate, a.stream, a.position,
                                                      Reason(a.candidate, a.stream))
      BY <1>10
    <2>2. /\ receipt.rejected[i].arrived_on = a.stream
          /\ receipt.rejected[i].reason = Reason(a.candidate, a.stream)
      BY <2>1 DEF RejectedFinding
    <2> QED
      BY <1>9, <1>12, <2>1, <2>2
  <1> QED
    BY <1>11, <1>12 DEF OnlyValuesTravel, Foreign

\* Nothing but plain values travels in an accepted finding, at any depth and
\* around any cycle, and a gate's own finding is refused only for what the
\* snapshot's signals brought into it (findings/receipt.py, merge.py).
THEOREM ValuesAloneTravel == Spec => []OnlyValuesTravel
  <1>1. PipelineInv => OnlyValuesTravel
    BY ValuesTravel
  <1> QED
    BY <1>1, ResultsAreTheirFunctions, PTL
=============================================================================
