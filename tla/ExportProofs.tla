---------------------------- MODULE ExportProofs ----------------------------
(***************************************************************************)
(* What the exports write is read back, proved for every matrix of any     *)
(* number of ports, every sweep and every free text.                       *)
(***************************************************************************)
EXTENDS VerdictsProofs, SequenceTheorems

----------------------------------------------------------------------------
(* Part 1: sequences put end to end.                                       *)

Put(v, s) == v \o s

FlatLoop(g, seqs, n) ==
  g = [i \in 1..n |-> IF i = 1 THEN seqs[i] ELSE Put(g[i - 1], seqs[i])]

FlatAlong(f, seqs, n, V) ==
  /\ f[0] = <<>>
  /\ \A i \in 1..n : f[i] = Put(f[i - 1], seqs[i])
  /\ \A i \in 0..n : f[i] \in V

\* Putting sequences end to end goes one after the other, and any values that
\* do end with all of them.
LEMMA FlatLoopRuns ==
  ASSUME NEW T, NEW n \in Nat \ {0}, NEW seqs, \A i \in 1..n : seqs[i] \in Seq(T)
  PROVE  /\ \E f : FlatAlong(f, seqs, n, Seq(T))
         /\ \E g : FlatLoop(g, seqs, n)
         /\ \A f, g : FlatAlong(f, seqs, n, Seq(T)) /\ FlatLoop(g, seqs, n) => g[n] = f[n]
  <1>1. \A v, s \in Seq(T) : Put(v, s) \in Seq(T)
    BY DEF Put
  <1>2. \A s \in Seq(T) : Put(<<>>, s) = s
    BY DEF Put
  <1>3. <<>> \in Seq(T)
    OBVIOUS
  <1> DEFINE G == [x \in (1..n) \X Seq(T) |-> Put(x[2], seqs[x[1]])]
  <1>4. \A i \in 1..n, v \in Seq(T) : G[<<i, v>>] = Put(v, seqs[i]) /\ G[<<i, v>>] \in Seq(T)
    BY <1>1
  <1> HIDE DEF G
  <1>5. PICK f : Along(f, n, <<>>, G, Seq(T))
    BY <1>3, <1>4, TurnsExist
  <1>6. FlatAlong(f, seqs, n, Seq(T))
    <2>1. \A i \in 1..n : i - 1 \in 0..n
      OBVIOUS
    <2> QED
      BY <1>4, <1>5, <2>1 DEF Along, FlatAlong
  <1>7. ASSUME NEW h, FlatAlong(h, seqs, n, Seq(T))
        PROVE  h[1] = seqs[1] /\ \A i \in 1..n : i # 1 => h[i] = Put(h[i - 1], seqs[i])
    <2>1. 1 \in 1..n /\ 1 - 1 = 0
      OBVIOUS
    <2>2. h[1] = Put(h[0], seqs[1]) /\ h[0] = <<>> /\ seqs[1] \in Seq(T)
      BY <1>7, <2>1 DEF FlatAlong
    <2>3. h[1] = seqs[1]
      BY <1>2, <2>2
    <2> QED
      BY <1>7, <2>3 DEF FlatAlong
  <1>8. FlatLoop([i \in 1..n |-> f[i]], seqs, n)
    <2> DEFINE g == [i \in 1..n |-> f[i]]
    <2>1. \A i \in 1..n : g[i] = IF i = 1 THEN seqs[i] ELSE Put(g[i - 1], seqs[i])
      <3> TAKE i \in 1..n
      <3>1. CASE i = 1
        BY <1>6, <1>7, <3>1
      <3>2. CASE i # 1
        <4>1. i - 1 \in 1..n
          BY <3>2
        <4>2. g[i - 1] = f[i - 1] /\ g[i] = f[i]
          BY <4>1
        <4> QED
          BY <1>6, <1>7, <3>2, <4>2
      <3> QED
        BY <3>1, <3>2
    <2> QED
      BY <2>1 DEF FlatLoop
  <1>9. ASSUME NEW h, NEW g, FlatAlong(h, seqs, n, Seq(T)), FlatLoop(g, seqs, n)
        PROVE  g[n] = h[n]
    <2> DEFINE S == {k \in Nat : k + 1 <= n => g[k + 1] = h[k + 1]}
    <2>1. \A i \in 1..n : g[i] = IF i = 1 THEN seqs[i] ELSE Put(g[i - 1], seqs[i])
      BY <1>9 DEF FlatLoop
    <2>2. h[1] = seqs[1] /\ \A i \in 1..n : i # 1 => h[i] = Put(h[i - 1], seqs[i])
      BY <1>7, <1>9
    <2>3. 0 \in S
      BY <2>1, <2>2
    <2>4. ASSUME NEW k \in Nat, k \in S PROVE k + 1 \in S
      <3> SUFFICES ASSUME (k + 1) + 1 <= n PROVE g[(k + 1) + 1] = h[(k + 1) + 1]
        OBVIOUS
      <3>1. g[k + 1] = h[k + 1]
        BY <2>4
      <3>2. (k + 1) + 1 \in 1..n /\ (k + 1) + 1 # 1 /\ ((k + 1) + 1) - 1 = k + 1
        OBVIOUS
      <3> QED
        BY <2>1, <2>2, <3>1, <3>2
    <2> HIDE DEF S
    <2>5. n - 1 \in S /\ (n - 1) + 1 = n
      BY <2>3, <2>4, NatSetInduction
    <2> QED
      BY <2>5 DEF S
  <1> QED
    BY <1>6, <1>8, <1>9

LEMMA FlattenRuns ==
  ASSUME NEW T, NEW seqs \in Seq(Seq(T))
  PROVE  \E n \in Nat : \E f : /\ n = Len(seqs)
                               /\ FlatAlong(f, seqs, n, Seq(T))
                               /\ FlattenSeq(seqs) = f[n]
  <1>1. PICK n \in Nat : n = Len(seqs) /\ DOMAIN seqs = 1..n
    OBVIOUS
  <1>2. \A i \in 1..n : seqs[i] \in Seq(T)
    BY <1>1
  <1>3. CASE n = 0
    <2>1. \A U : \A v \in Seq(U) : Len(v) = 0 => v = <<>>
      OBVIOUS
    <2>2. seqs = <<>>
      BY <1>1, <1>3, <2>1
    <2>3. FlattenSeq(seqs) = <<>>
      BY <1>1, <1>3, <2>2 DEF FlattenSeq
    <2>4. FlatAlong([i \in 0..0 |-> <<>>], seqs, 0, Seq(T))
      BY DEF FlatAlong
    <2>5. [i \in 0..0 |-> <<>>][0] = <<>>
      OBVIOUS
    <2> QED
      BY <1>1, <1>3, <2>3, <2>4, <2>5
  <1>4. CASE n # 0
    <2>1. PICK f : FlatAlong(f, seqs, n, Seq(T))
      BY <1>2, <1>4, FlatLoopRuns
    <2> DEFINE g == CHOOSE h : FlatLoop(h, seqs, n)
    <2>2. FlatLoop(g, seqs, n)
      BY <1>2, <1>4, FlatLoopRuns
    <2>3. FlattenSeq(seqs) = g[n]
      BY <1>1, <1>4 DEF FlattenSeq, FlatLoop, Put
    <2> HIDE DEF g
    <2>4. g[n] = f[n]
      BY <1>2, <1>4, <2>1, <2>2, FlatLoopRuns
    <2> QED
      BY <1>1, <2>1, <2>3, <2>4
  <1> QED
    BY <1>3, <1>4

\* Whatever grows by the same sequences ends as they do end to end.
LEMMA FlattenIs ==
  ASSUME NEW T, NEW seqs \in Seq(Seq(T)), NEW n \in Nat,
         NEW f, FlatAlong(f, seqs, n, Seq(T))
  PROVE  n = Len(seqs) => FlattenSeq(seqs) = f[n]
  <1>0. SUFFICES ASSUME \E g : FlatAlong(g, seqs, n, Seq(T)) /\ FlattenSeq(seqs) = g[n]
                 PROVE  FlattenSeq(seqs) = f[n]
    BY FlattenRuns
  <1>1. PICK g : FlatAlong(g, seqs, n, Seq(T)) /\ FlattenSeq(seqs) = g[n]
    BY <1>0
  <1>2. f[0] = g[0]
    BY <1>1 DEF FlatAlong
  <1>3. \A i \in 1..n : f[i - 1] = g[i - 1] => f[i] = g[i]
    BY <1>1 DEF FlatAlong
  <1>4. \A i \in 0..n : f[i] = g[i]
    BY <1>2, <1>3, SameTurns
  <1> QED
    BY <1>1, <1>4

LEMMA FlattenTyped ==
  ASSUME NEW T, NEW seqs \in Seq(Seq(T))
  PROVE  FlattenSeq(seqs) \in Seq(T)
  <1>1. PICK n \in Nat : \E f : /\ FlatAlong(f, seqs, n, Seq(T))
                                /\ FlattenSeq(seqs) = f[n]
    BY FlattenRuns
  <1> QED
    BY <1>1 DEF FlatAlong

LEMMA PutAssociates ==
  ASSUME NEW T, NEW v \in Seq(T), NEW w \in Seq(T), NEW x \in Seq(T)
  PROVE  Put(Put(v, w), x) = Put(v, Put(w, x))
  BY ConcatAssociative DEF Put

\* End to end, of two sequences of sequences put end to end.
LEMMA FlattenJoins ==
  ASSUME NEW T, NEW s \in Seq(Seq(T)), NEW t \in Seq(Seq(T))
  PROVE  FlattenSeq(s \o t) = FlattenSeq(s) \o FlattenSeq(t)
  <1>1. PICK n \in Nat : \E f : /\ n = Len(s)
                                /\ FlatAlong(f, s, n, Seq(T))
                                /\ FlattenSeq(s) = f[n]
    BY FlattenRuns
  <1>2. PICK f : FlatAlong(f, s, n, Seq(T)) /\ FlattenSeq(s) = f[n]
    BY <1>1
  <1>3. PICK m \in Nat : \E g : /\ m = Len(t)
                                /\ FlatAlong(g, t, m, Seq(T))
                                /\ FlattenSeq(t) = g[m]
    BY FlattenRuns
  <1>4. PICK g : FlatAlong(g, t, m, Seq(T)) /\ FlattenSeq(t) = g[m]
    BY <1>3
  <1> DEFINE u == s \o t
             h == [i \in 0..(n + m) |-> IF i <= n THEN f[i] ELSE Put(f[n], g[i - n])]
  <1>5. u \in Seq(Seq(T)) /\ Joined(u, s, t, n, m)
    <2>1. u \in Seq(Seq(T))
      OBVIOUS
    <2> QED
      BY <1>1, <1>3, <2>1, JoinedPlaces
  <1>6. /\ f[0] = <<>> /\ \A i \in 1..n : f[i] = Put(f[i - 1], s[i])
        /\ \A i \in 0..n : f[i] \in Seq(T)
        /\ g[0] = <<>> /\ \A i \in 1..m : g[i] = Put(g[i - 1], t[i])
        /\ \A i \in 0..m : g[i] \in Seq(T)
    BY <1>2, <1>4 DEF FlatAlong
  <1>7. /\ \A v, w \in Seq(T) : Put(v, w) \in Seq(T)
        /\ \A v \in Seq(T) : Put(v, <<>>) = v
    BY DEF Put
  <1>8. /\ \A i \in 0..n : h[i] = f[i]
        /\ \A i \in 0..m : h[n + i] = Put(f[n], g[i])
    <2>1. \A i \in 0..n : h[i] = f[i]
      OBVIOUS
    <2>2. ASSUME NEW i \in 0..m PROVE h[n + i] = Put(f[n], g[i])
      <3>1. CASE i = 0
        <4>1. h[n + i] = f[n] /\ n \in 0..n
          BY <3>1
        <4> QED
          BY <1>6, <1>7, <3>1, <4>1
      <3>2. CASE i # 0
        <4>1. n + i \in 0..(n + m) /\ ~(n + i <= n) /\ (n + i) - n = i
          BY <3>2
        <4> QED
          BY <4>1
      <3> QED
        BY <3>1, <3>2
    <2> QED
      BY <2>1, <2>2
  <1> HIDE DEF h, u
  <1>9. FlatAlong(h, u, n + m, Seq(T))
    <2>1. h[0] = <<>>
      BY <1>6, <1>8
    <2>2. \A i \in 0..(n + m) : i \in 0..n \/ \E j \in 0..m : i = n + j
      <3> TAKE i \in 0..(n + m)
      <3>1. i \in 0..n \/ (i - n \in 0..m /\ i = n + (i - n))
        OBVIOUS
      <3> QED
        BY <3>1
    <2>3. \A i \in 0..(n + m) : h[i] \in Seq(T)
      <3> TAKE i \in 0..(n + m)
      <3>1. CASE i \in 0..n
        BY <1>6, <1>8, <3>1
      <3>2. CASE i \notin 0..n
        <4>1. PICK j \in 0..m : i = n + j
          BY <2>2, <3>2
        <4>2. h[i] = Put(f[n], g[j])
          BY <1>8, <4>1
        <4>3. f[n] \in Seq(T) /\ g[j] \in Seq(T)
          BY <1>6
        <4>4. Put(f[n], g[j]) \in Seq(T)
          BY <1>7, <4>3
        <4> QED
          BY <4>2, <4>4
      <3> QED
        BY <3>1, <3>2
    <2>4. ASSUME NEW i \in 1..(n + m) PROVE h[i] = Put(h[i - 1], u[i])
      <3>1. CASE i \in 1..n
        <4>1. i \in 0..n /\ i - 1 \in 0..n
          BY <3>1
        <4>2. u[i] = s[i]
          BY <1>5, <3>1 DEF Joined
        <4> QED
          BY <1>6, <1>8, <3>1, <4>1, <4>2
      <3>2. CASE i \notin 1..n
        <4>1. PICK j \in 1..m : i = n + j
          <5>1. i - n \in 1..m /\ i = n + (i - n)
            BY <3>2
          <5> QED
            BY <5>1
        <4>2. u[i] = t[j]
          BY <1>5, <4>1 DEF Joined
        <4>3. j \in 0..m /\ j - 1 \in 0..m /\ i - 1 = n + (j - 1) /\ n \in 0..n
          BY <4>1
        <4>4. h[i] = Put(f[n], g[j]) /\ h[i - 1] = Put(f[n], g[j - 1])
          BY <1>8, <4>1, <4>3
        <4>5. g[j] = Put(g[j - 1], t[j])
          BY <1>6
        <4>6. f[n] \in Seq(T) /\ g[j - 1] \in Seq(T) /\ t[j] \in Seq(T)
          <5>1. t[j] \in Seq(T)
            BY <1>3
          <5> QED
            BY <1>6, <4>3, <5>1
        <4>7. Put(Put(f[n], g[j - 1]), t[j]) = Put(f[n], Put(g[j - 1], t[j]))
          BY <4>6, PutAssociates
        <4>8. h[i] = Put(Put(f[n], g[j - 1]), t[j])
          BY <4>4, <4>5, <4>7
        <4> QED
          BY <4>2, <4>4, <4>8
      <3> QED
        BY <3>1, <3>2
    <2> QED
      BY <2>1, <2>3, <2>4 DEF FlatAlong
  <1>10. Len(u) = n + m /\ n + m \in Nat
    BY <1>5 DEF Joined
  <1>11. FlattenSeq(u) = h[n + m]
    BY <1>5, <1>9, <1>10, FlattenIs
  <1>12. h[n + m] = Put(f[n], g[m]) /\ m \in 0..m
    BY <1>8
  <1> QED
    BY <1>2, <1>4, <1>11, <1>12 DEF u, Put
LEMMA FlattenNone == FlattenSeq(<<>>) = <<>>
  BY DEF FlattenSeq

Flattened(sss) == [i \in DOMAIN sss |-> FlattenSeq(sss[i])]

\* Inner first or outer first, it is the same.
LEMMA FlattenTwice ==
  ASSUME NEW T, NEW sss \in Seq(Seq(Seq(T)))
  PROVE  /\ Flattened(sss) \in Seq(Seq(T))
         /\ FlattenSeq(FlattenSeq(sss)) = FlattenSeq(Flattened(sss))
  <1>1. PICK n \in Nat : \E f : /\ n = Len(sss)
                                /\ FlatAlong(f, sss, n, Seq(Seq(T)))
                                /\ FlattenSeq(sss) = f[n]
    BY FlattenRuns
  <1>2. PICK f : FlatAlong(f, sss, n, Seq(Seq(T))) /\ FlattenSeq(sss) = f[n]
    BY <1>1
  <1>3. DOMAIN sss = 1..n /\ \A i \in 1..n : sss[i] \in Seq(Seq(T))
    BY <1>1
  <1> DEFINE u == Flattened(sss)
             h == [i \in 0..n |-> FlattenSeq(f[i])]
  <1>4. \A i \in 1..n : u[i] = FlattenSeq(sss[i]) /\ u[i] \in Seq(T)
    BY <1>3, FlattenTyped DEF Flattened
  <1>5. u \in Seq(Seq(T)) /\ Len(u) = n
    <2>1. u = [i \in 1..n |-> u[i]]
      BY <1>3 DEF Flattened
    <2> HIDE DEF u
    <2> QED
      BY <1>4, <2>1, SequenceOf
  <1>6. \A i \in 0..n : h[i] = FlattenSeq(f[i]) /\ f[i] \in Seq(Seq(T)) /\ h[i] \in Seq(T)
    BY <1>2, FlattenTyped DEF FlatAlong
  <1> HIDE DEF u, h
  <1>7. h[0] = <<>>
    BY <1>2, <1>6, FlattenNone DEF FlatAlong
  <1>8. ASSUME NEW i \in 1..n PROVE h[i] = Put(h[i - 1], u[i])
    <2>1. i \in 0..n /\ i - 1 \in 0..n
      OBVIOUS
    <2>2. f[i] = f[i - 1] \o sss[i]
      BY <1>2 DEF FlatAlong, Put
    <2>3. FlattenSeq(f[i - 1] \o sss[i]) = FlattenSeq(f[i - 1]) \o FlattenSeq(sss[i])
      BY <1>3, <1>6, <2>1, FlattenJoins
    <2> QED
      BY <1>4, <1>6, <2>1, <2>2, <2>3 DEF Put
  <1>9. FlatAlong(h, u, n, Seq(T))
    BY <1>6, <1>7, <1>8 DEF FlatAlong
  <1>10. FlattenSeq(u) = h[n]
    BY <1>5, <1>9, FlattenIs
  <1> QED
    BY <1>2, <1>5, <1>6, <1>10 DEF u

\* Places row by row in a grid of rows of w.
LEMMA GridGrows ==
  ASSUME NEW k \in Nat, NEW w \in Nat
  PROVE  k * w \in Nat /\ (k + 1) * w = k * w + w
  OBVIOUS

LEMMA RowsBefore ==
  ASSUME NEW k \in Nat, NEW w \in Nat, NEW a \in Nat, a <= k
  PROVE  a * w <= k * w
  OBVIOUS

LEMMA PlaceInGrid ==
  ASSUME NEW k \in Nat, NEW w \in Nat, NEW a \in 1..k, NEW j \in 1..w
  PROVE  (a - 1) * w + j \in 1..(k * w)
  <1>1. (a - 1) * w \in Nat /\ a * w = (a - 1) * w + w
    <2>1. a - 1 \in Nat /\ (a - 1) + 1 = a
      OBVIOUS
    <2> QED
      BY <2>1, GridGrows
  <1>2. a * w <= k * w
    BY RowsBefore
  <1>3. k * w \in Nat
    OBVIOUS
  <1> QED
    BY <1>1, <1>2, <1>3

LEMMA RowAndColumn ==
  ASSUME NEW k \in Nat, NEW w \in Nat \ {0}, NEW i \in 1..(k * w)
  PROVE  /\ (i - 1) \div w \in Nat /\ (i - 1) \div w + 1 \in 1..k
         /\ (i - 1) % w \in Nat /\ ((i - 1) % w) + 1 \in 1..w
         /\ i = ((i - 1) \div w) * w + (((i - 1) % w) + 1)
  <1> DEFINE q == (i - 1) \div w
             r == (i - 1) % w
  <1>1. r \in Nat /\ r < w
    OBVIOUS
  <1>2. q \in Int /\ i - 1 = w * q + r
    OBVIOUS
  <1>3. q >= 0
    OBVIOUS
  <1>4. q < k
    OBVIOUS
  <1> QED
    BY <1>1, <1>2, <1>3, <1>4

LEMMA PlaceHasRowAndColumn ==
  ASSUME NEW w \in Nat \ {0}, NEW a \in Nat \ {0}, NEW j \in 1..w
  PROVE  /\ ((a - 1) * w + j - 1) \div w = a - 1
         /\ ((a - 1) * w + j - 1) % w = j - 1
  OBVIOUS

\* The first k sequences of w each, row by row.
Grid(v, seqs, w, k) ==
  /\ Len(v) = k * w
  /\ \A a \in 1..k : \A j \in 1..w : v[(a - 1) * w + j] = seqs[a][j]

LEMMA GridPut ==
  ASSUME NEW T, NEW v \in Seq(T), NEW seqs, NEW w \in Nat, NEW k \in Nat,
         NEW s \in Seq(T), s = seqs[k + 1], Len(s) = w, Grid(v, seqs, w, k)
  PROVE  Grid(Put(v, s), seqs, w, k + 1)
  <1>1. PICK n \in Nat : n = k * w
    BY GridGrows
  <1>2. Len(v) = n /\ \A a \in 1..k : \A j \in 1..w : v[(a - 1) * w + j] = seqs[a][j]
    BY <1>1 DEF Grid
  <1>3. \A a \in 1..k : \A j \in 1..w : (a - 1) * w + j \in 1..n
    BY <1>1, PlaceInGrid
  <1>4. Joined(Put(v, s), v, s, n, w)
    BY <1>2, JoinedPlaces DEF Put
  <1>5. (k + 1) * w = n + w
    BY <1>1, GridGrows
  <1>6. Len(Put(v, s)) = (k + 1) * w
    BY <1>4, <1>5 DEF Joined
  <1>7. ASSUME NEW a \in 1..(k + 1), NEW j \in 1..w
        PROVE  Put(v, s)[(a - 1) * w + j] = seqs[a][j]
    <2>1. CASE a \in 1..k
      <3>1. (a - 1) * w + j \in 1..n
        BY <1>3, <2>1
      <3>2. Put(v, s)[(a - 1) * w + j] = v[(a - 1) * w + j]
        BY <1>4, <3>1 DEF Joined
      <3> QED
        BY <1>2, <2>1, <3>2
    <2>2. CASE a = k + 1
      <3>1. (a - 1) * w + j = n + j
        BY <1>1, <2>2
      <3>2. Put(v, s)[n + j] = s[j]
        BY <1>4 DEF Joined
      <3> QED
        BY <2>2, <3>1, <3>2
    <2>3. a \in 1..k \/ a = k + 1
      OBVIOUS
    <2> QED
      BY <2>1, <2>2, <2>3
  <1> QED
    BY <1>6, <1>7 DEF Grid

\* Sequences of one length end to end are a grid.
LEMMA FlattenIsGrid ==
  ASSUME NEW T, NEW seqs \in Seq(Seq(T)), NEW w \in Nat,
         \A i \in DOMAIN seqs : Len(seqs[i]) = w
  PROVE  /\ FlattenSeq(seqs) \in Seq(T)
         /\ Grid(FlattenSeq(seqs), seqs, w, Len(seqs))
  <1>1. PICK n \in Nat : \E f : /\ n = Len(seqs)
                                /\ FlatAlong(f, seqs, n, Seq(T))
                                /\ FlattenSeq(seqs) = f[n]
    BY FlattenRuns
  <1>2. PICK f : FlatAlong(f, seqs, n, Seq(T)) /\ FlattenSeq(seqs) = f[n]
    BY <1>1
  <1>3. \A i \in 1..n : seqs[i] \in Seq(T) /\ Len(seqs[i]) = w
    <2>1. DOMAIN seqs = 1..n /\ \A i \in 1..n : seqs[i] \in Seq(T)
      BY <1>1
    <2> QED
      BY <2>1
  <1> DEFINE S == {k \in Nat : k <= n => Grid(f[k], seqs, w, k)}
  <1>4. 0 \in S
    <2>1. f[0] = <<>>
      BY <1>2 DEF FlatAlong
    <2>2. Grid(<<>>, seqs, w, 0)
      BY DEF Grid
    <2> QED
      BY <2>1, <2>2
  <1>5. ASSUME NEW k \in Nat, k \in S PROVE k + 1 \in S
    <2> SUFFICES ASSUME k + 1 <= n PROVE Grid(f[k + 1], seqs, w, k + 1)
      OBVIOUS
    <2>1. Grid(f[k], seqs, w, k)
      BY <1>5
    <2>2. k \in 0..n /\ k + 1 \in 1..n /\ (k + 1) - 1 = k
      OBVIOUS
    <2>3. f[k] \in Seq(T) /\ f[k + 1] = Put(f[k], seqs[k + 1])
      BY <1>2, <2>2 DEF FlatAlong
    <2>4. seqs[k + 1] \in Seq(T) /\ Len(seqs[k + 1]) = w
      BY <1>3, <2>2
    <2>5. Grid(Put(f[k], seqs[k + 1]), seqs, w, k + 1)
      BY <2>1, <2>3, <2>4, GridPut
    <2> QED
      BY <2>3, <2>5
  <1> HIDE DEF S
  <1>6. n \in S /\ n <= n
    <2>1. \A k \in Nat : k \in S => k + 1 \in S
      BY <1>5
    <2>2. Nat \subseteq S
      BY <1>4, <2>1, NatSetInduction
    <2> QED
      BY <2>2
  <1>7. Grid(f[n], seqs, w, n)
    BY <1>6 DEF S
  <1> QED
    BY <1>1, <1>2, <1>7, FlattenTyped

----------------------------------------------------------------------------
(* Part 2: the lines of a Touchstone file.                                 *)

\* How many lines a row of w pairs takes, and where line j of it ends.
LinesOfRow(w) == (w + MaxPairsPerLine - 1) \div MaxPairsPerLine

EndOfLine(w, j) == IF j * MaxPairsPerLine < w THEN j * MaxPairsPerLine ELSE w

LEMMA LinesAreFull ==
  ASSUME NEW w \in Nat
  PROVE  /\ LinesOfRow(w) \in Nat
         /\ w # 0 => LinesOfRow(w) # 0
         /\ EndOfLine(w, 0) = 0
         /\ EndOfLine(w, LinesOfRow(w)) = w
         /\ \A j \in 1..LinesOfRow(w) :
              /\ EndOfLine(w, j - 1) = (j - 1) * MaxPairsPerLine
              /\ EndOfLine(w, j - 1) < EndOfLine(w, j)
              /\ EndOfLine(w, j) <= EndOfLine(w, j - 1) + MaxPairsPerLine
              /\ EndOfLine(w, j) \in 1..w
  BY DEF LinesOfRow, EndOfLine, MaxPairsPerLine

\* The chunks of a row are short and make up the row.
LEMMA ChunksMakeTheRow ==
  ASSUME NEW T, NEW row \in Seq(T)
  PROVE  /\ Chunks(row) \in Seq(Seq(T))
         /\ Len(Chunks(row)) = LinesOfRow(Len(row))
         /\ \A j \in DOMAIN Chunks(row) : Len(Chunks(row)[j]) <= MaxPairsPerLine
         /\ FlattenSeq(Chunks(row)) = row
  <1>1. PICK w \in Nat : w = Len(row) /\ DOMAIN row = 1..w
    OBVIOUS
  <1>2. PICK n \in Nat : n = LinesOfRow(w)
    BY LinesAreFull
  <1> DEFINE c == Chunks(row)
             e(j) == EndOfLine(w, j)
             f == [j \in 0..n |-> SubSeq(row, 1, e(j))]
  <1>3. /\ e(0) = 0 /\ e(n) = w
        /\ \A j \in 1..n : /\ e(j - 1) = (j - 1) * MaxPairsPerLine
                           /\ e(j - 1) < e(j)
                           /\ e(j) <= e(j - 1) + MaxPairsPerLine
                           /\ e(j) \in 1..w
    BY <1>2, LinesAreFull
  <1>4. \A j \in 0..n : e(j) \in 0..w
    <2> TAKE j \in 0..n
    <2>1. j = 0 \/ j \in 1..n
      OBVIOUS
    <2> QED
      BY <1>3, <2>1
  <1>5. c = [j \in 1..n |-> SubSeq(row, (j - 1) * MaxPairsPerLine + 1, e(j))]
    BY <1>1, <1>2 DEF Chunks, LinesOfRow, EndOfLine
  <1> HIDE DEF c, e
  <1>6. \A j \in 1..n : c[j] = SubSeq(row, e(j - 1) + 1, e(j)) /\ e(j - 1) \in 0..w
    <2> TAKE j \in 1..n
    <2>1. j - 1 \in 0..n /\ c[j] = SubSeq(row, (j - 1) * MaxPairsPerLine + 1, e(j))
      BY <1>5
    <2> QED
      BY <1>3, <1>4, <2>1
  <1>7. \A j \in 1..n : c[j] \in Seq(T) /\ Len(c[j]) <= MaxPairsPerLine
    <2> TAKE j \in 1..n
    <2>1. PICK a \in 0..w : a = e(j - 1)
      BY <1>6
    <2>2. PICK b \in 1..w : b = e(j)
      BY <1>3
    <2>3. a < b /\ b <= a + MaxPairsPerLine /\ MaxPairsPerLine \in Nat
      BY <1>3, <2>1, <2>2 DEF MaxPairsPerLine
    <2>4. \A i \in (a + 1)..b : row[i] \in T
      BY <1>1
    <2>5. SubSeq(row, a + 1, b) \in Seq(T) /\ Len(SubSeq(row, a + 1, b)) = b - (a + 1) + 1
      BY <2>3, <2>4, SubSeqProperties
    <2>6. c[j] = SubSeq(row, a + 1, b)
      BY <1>6, <2>1, <2>2
    <2> QED
      BY <2>3, <2>5, <2>6
  <1>8. c \in Seq(Seq(T)) /\ Len(c) = n /\ DOMAIN c = 1..n
    <2>1. c = [j \in 1..n |-> c[j]]
      BY <1>5
    <2> QED
      BY <1>7, <2>1, SequenceOf
  <1>9. \A j \in 0..n : f[j] = SubSeq(row, 1, e(j)) /\ f[j] \in Seq(T)
    <2> TAKE j \in 0..n
    <2>1. PICK b \in 0..w : b = e(j)
      BY <1>4
    <2>2. \A i \in 1..b : row[i] \in T
      BY <1>1
    <2>3. SubSeq(row, 1, b) \in Seq(T)
      BY <2>2, SubSeqProperties
    <2> QED
      BY <2>1, <2>3
  <1> HIDE DEF f
  <1>10. f[0] = <<>>
    BY <1>3, <1>9, SubSeqEmpty
  <1>11. ASSUME NEW j \in 1..n PROVE f[j] = Put(f[j - 1], c[j])
    <2>1. PICK a \in 0..w : a = e(j - 1)
      BY <1>6
    <2>2. PICK b \in 1..w : b = e(j) /\ a < b
      BY <1>3, <2>1
    <2>3. SubSeq(row, 1, a) \o SubSeq(row, a + 1, b) = SubSeq(row, 1, b)
      <3>1. 1 \in 1..(Len(row) + 1) /\ a \in (1 - 1)..Len(row) /\ b \in a..Len(row)
        BY <1>1, <2>2
      <3> QED
        BY <3>1, ConcatAdjacentSubSeq
    <2>4. j \in 0..n /\ j - 1 \in 0..n
      OBVIOUS
    <2> QED
      BY <1>6, <1>9, <2>1, <2>2, <2>3, <2>4 DEF Put
  <1>12. FlatAlong(f, c, n, Seq(T))
    BY <1>9, <1>10, <1>11 DEF FlatAlong
  <1>13. FlattenSeq(c) = f[n]
    BY <1>8, <1>12, FlattenIs
  <1>14. f[n] = row
    <2>1. SubSeq(row, 1, Len(row)) = row
      BY SubSeqFull
    <2>2. f[n] = SubSeq(row, 1, e(n))
      BY <1>9
    <2> QED
      BY <1>1, <1>3, <2>1, <2>2
  <1> QED
    BY <1>1, <1>2, <1>7, <1>8, <1>13, <1>14 DEF c

\* The shape of a point's rows, which only the number of ports decides.
RowsOf(ports) == IF ports = 2 THEN 1 ELSE ports

WidthOf(ports) == IF ports = 2 THEN 4 ELSE ports

LinesOfPoint(ports) == RowsOf(ports) * LinesOfRow(WidthOf(ports))

LEMMA ShapeOfPoint ==
  ASSUME NEW ports \in Nat \ {0}
  PROVE  /\ RowsOf(ports) \in Nat \ {0} /\ WidthOf(ports) \in Nat \ {0}
         /\ RowsOf(ports) * WidthOf(ports) = ports * ports
         /\ LinesOfRow(WidthOf(ports)) \in Nat \ {0}
         /\ LinesOfPoint(ports) \in Nat \ {0}
  <1>1. /\ RowsOf(ports) \in Nat \ {0} /\ WidthOf(ports) \in Nat \ {0}
        /\ RowsOf(ports) * WidthOf(ports) = ports * ports
    BY DEF RowsOf, WidthOf
  <1>2. LinesOfRow(WidthOf(ports)) \in Nat \ {0}
    BY <1>1, LinesAreFull
  <1>3. \A a, b \in Nat \ {0} : a * b \in Nat \ {0}
    OBVIOUS
  <1> QED
    BY <1>1, <1>2, <1>3 DEF LinesOfPoint

Samples(solved, ports, point) ==
  {Entry(solved, <<row, column>>, point) : row \in 1..ports, column \in 1..ports}

\* n rows of w samples, each where the format puts it.
HoldMatrix(rows, T, n, w, solved, ports, point) ==
  /\ rows \in Seq(Seq(T))
  /\ Len(rows) = n
  /\ \A r \in DOMAIN rows : Len(rows[r]) = w
  /\ \A i \in 1..(ports * ports) :
       rows[(i - 1) \div w + 1][((i - 1) % w) + 1]
         = SampleAt(solved, PlaceOfPair(ports, i), point)

LEMMA RowsOfPoint ==
  ASSUME NEW solved, NEW ports \in Nat \ {0}, NEW point
  PROVE  HoldMatrix(MatrixRows(solved, ports, point), Samples(solved, ports, point),
                    RowsOf(ports), WidthOf(ports), solved, ports, point)
  <1> DEFINE rows == MatrixRows(solved, ports, point)
             T == Samples(solved, ports, point)
             w == WidthOf(ports)
             n == RowsOf(ports)
  <1>1. \A place : SampleAt(solved, place, point) = Entry(solved, place, point)
    BY DEF SampleAt, Entry, GridKey, Position
  <1>2. \A r, c \in 1..ports : Entry(solved, <<r, c>>, point) \in T
    BY DEF Samples
  <1>3. CASE ports = 2
    <2> DEFINE places == <<<<1, 1>>, <<2, 1>>, <<1, 2>>, <<2, 2>>>>
               row == [i \in 1..4 |-> Entry(solved, places[i], point)]
    <2>1. w = 4 /\ n = 1 /\ ports * ports = 4 /\ 1..ports = {1, 2}
      BY <1>3 DEF WidthOf, RowsOf
    <2>2. rows = <<row>>
      BY <1>3 DEF MatrixRows
    <2>3. /\ places[1] = <<1, 1>> /\ places[2] = <<2, 1>>
          /\ places[3] = <<1, 2>> /\ places[4] = <<2, 2>>
      OBVIOUS
    <2>4. \A i \in 1..4 : places[i] = PlaceOfPair(ports, i)
      <3>1. PlaceOfPair(2, 1) = <<1, 1>>
        BY DEF PlaceOfPair
      <3>2. PlaceOfPair(2, 2) = <<2, 1>>
        BY DEF PlaceOfPair
      <3>3. PlaceOfPair(2, 3) = <<1, 2>>
        BY DEF PlaceOfPair
      <3>4. PlaceOfPair(2, 4) = <<2, 2>>
        BY DEF PlaceOfPair
      <3> HIDE DEF places
      <3> QED
        BY <1>3, <2>3, <3>1, <3>2, <3>3, <3>4
    <2>5. \A i \in 1..4 : Entry(solved, places[i], point) \in T
      <3>1. 1 \in 1..ports /\ 2 \in 1..ports
        BY <2>1
      <3> HIDE DEF places, T
      <3>2. /\ Entry(solved, <<1, 1>>, point) \in T /\ Entry(solved, <<2, 1>>, point) \in T
            /\ Entry(solved, <<1, 2>>, point) \in T /\ Entry(solved, <<2, 2>>, point) \in T
        BY <1>2, <3>1
      <3>3. \A i \in 1..4 : i = 1 \/ i = 2 \/ i = 3 \/ i = 4
        OBVIOUS
      <3> QED
        BY <2>3, <3>2, <3>3
    <2> HIDE DEF places, T
    <2>6. \A i \in 1..4 : row[i] = Entry(solved, places[i], point)
      OBVIOUS
    <2>7. row \in Seq(T) /\ Len(row) = 4
      <3>1. row = [i \in 1..4 |-> row[i]] /\ \A i \in 1..4 : row[i] \in T
        BY <2>5
      <3> HIDE DEF row
      <3> QED
        BY <3>1, SequenceOf
    <2> HIDE DEF row, rows
    <2>8. rows \in Seq(Seq(T)) /\ Len(rows) = n /\ DOMAIN rows = {1} /\ rows[1] = row
      BY <2>1, <2>2, <2>7
    <2>9. \A i \in 1..4 : (i - 1) \div 4 + 1 = 1 /\ ((i - 1) % 4) + 1 = i
      OBVIOUS
    <2>10. \A i \in 1..4 : row[i] = SampleAt(solved, PlaceOfPair(ports, i), point)
      BY <1>1, <2>4, <2>6
    <2>11. \A i \in 1..(ports * ports) :
             rows[(i - 1) \div w + 1][((i - 1) % w) + 1]
               = SampleAt(solved, PlaceOfPair(ports, i), point)
      <3>1. ASSUME NEW i \in 1..4
            PROVE  rows[(i - 1) \div 4 + 1][((i - 1) % 4) + 1]
                     = SampleAt(solved, PlaceOfPair(ports, i), point)
        <4>1. PICK a, b : a = (i - 1) \div 4 + 1 /\ b = ((i - 1) % 4) + 1
          OBVIOUS
        <4>2. a = 1 /\ b = i
          BY <2>9, <4>1
        <4>3. rows[a][b] = row[i]
          BY <2>8, <4>2
        <4> QED
          BY <2>10, <4>1, <4>3
      <3> QED
        BY <2>1, <3>1
    <2> QED
      BY <2>1, <2>7, <2>8, <2>11 DEF rows, T, HoldMatrix
  <1>4. CASE ports # 2
    <2>1. w = ports /\ n = ports
      BY <1>4 DEF WidthOf, RowsOf
    <2>2. rows = [r \in 1..ports |-> [c \in 1..ports |-> Entry(solved, <<r, c>>, point)]]
      BY <1>4 DEF MatrixRows
    <2> HIDE DEF rows, T
    <2>3. \A r \in 1..ports : rows[r] \in Seq(T) /\ Len(rows[r]) = ports
      <3> TAKE r \in 1..ports
      <3>1. PICK row : row = rows[r]
        OBVIOUS
      <3>2. row = [c \in 1..ports |-> row[c]] /\ \A c \in 1..ports : row[c] \in T
        BY <1>2, <2>2, <3>1
      <3> QED
        BY <3>1, <3>2, SequenceOf
    <2>4. rows = [r \in 1..ports |-> rows[r]]
      BY <2>2
    <2>5. rows \in Seq(Seq(T)) /\ Len(rows) = ports /\ DOMAIN rows = 1..ports
      BY <2>3, <2>4, SequenceOf
    <2>6. ASSUME NEW i \in 1..(ports * ports)
          PROVE  rows[(i - 1) \div ports + 1][((i - 1) % ports) + 1]
                   = SampleAt(solved, PlaceOfPair(ports, i), point)
      <3>1. PICK r : r = (i - 1) \div ports + 1
        OBVIOUS
      <3>2. PICK c : c = ((i - 1) % ports) + 1
        OBVIOUS
      <3>3. r \in 1..ports /\ c \in 1..ports
        BY <3>1, <3>2, RowAndColumn
      <3>4. rows[r][c] = Entry(solved, <<r, c>>, point)
        BY <2>2, <3>3
      <3>5. PlaceOfPair(ports, i) = <<r, c>>
        BY <1>4, <3>1, <3>2 DEF PlaceOfPair
      <3> QED
        BY <1>1, <3>1, <3>2, <3>4, <3>5
    <2> QED
      BY <2>1, <2>3, <2>5, <2>6 DEF rows, T, HoldMatrix
  <1> QED
    BY <1>3, <1>4

\* The pairs of a point's lines.
PointChunks(solved, ports, point) ==
  FlattenSeq([i \in DOMAIN MatrixRows(solved, ports, point) |->
                Chunks(MatrixRows(solved, ports, point)[i])])

\* Such pairs, end to end, are the matrix at the point; no line has too many.
CarriesPoint(chunks, solved, ports, point) ==
  /\ \A i \in DOMAIN chunks : Len(chunks[i]) <= MaxPairsPerLine
  /\ Len(FlattenSeq(chunks)) = ports * ports
  /\ \A i \in 1..(ports * ports) :
       FlattenSeq(chunks)[i] = SampleAt(solved, PlaceOfPair(ports, i), point)

LEMMA ChunksCarryThePoint ==
  ASSUME NEW solved, NEW ports \in Nat \ {0}, NEW point
  PROVE  /\ PointChunks(solved, ports, point) \in Seq(Seq(Samples(solved, ports, point)))
         /\ Len(PointChunks(solved, ports, point)) = LinesOfPoint(ports)
         /\ CarriesPoint(PointChunks(solved, ports, point), solved, ports, point)
  <1> DEFINE rows == MatrixRows(solved, ports, point)
             parts == [i \in DOMAIN rows |-> Chunks(rows[i])]
             chunks == FlattenSeq(parts)
  <1>1. PICK T : T = Samples(solved, ports, point)
    OBVIOUS
  <1>2. PICK w \in Nat \ {0} : w = WidthOf(ports)
    BY ShapeOfPoint
  <1>3. PICK n \in Nat \ {0} : n = RowsOf(ports)
    BY ShapeOfPoint
  <1>4. PICK c \in Nat \ {0} : c = LinesOfRow(w)
    BY <1>2, ShapeOfPoint
  <1>5. /\ n * w = ports * ports /\ LinesOfPoint(ports) = n * c
    BY <1>2, <1>3, <1>4, ShapeOfPoint DEF LinesOfPoint
  <1>6. /\ rows \in Seq(Seq(T)) /\ Len(rows) = n
        /\ \A r \in DOMAIN rows : Len(rows[r]) = w
        /\ \A i \in 1..(ports * ports) :
             rows[(i - 1) \div w + 1][((i - 1) % w) + 1]
               = SampleAt(solved, PlaceOfPair(ports, i), point)
    <2>1. HoldMatrix(rows, T, n, w, solved, ports, point)
      BY <1>1, <1>2, <1>3, RowsOfPoint
    <2> HIDE DEF rows
    <2> QED
      BY <2>1 DEF HoldMatrix
  <1> HIDE DEF rows
  <1>7. DOMAIN rows = 1..n /\ \A r \in 1..n : rows[r] \in Seq(T) /\ Len(rows[r]) = w
    <2>1. DOMAIN rows = 1..n /\ \A r \in 1..n : rows[r] \in Seq(T)
      BY <1>6
    <2> QED
      BY <1>6, <2>1
  <1>8. parts = [i \in 1..n |-> parts[i]] /\ \A i \in 1..n : parts[i] = Chunks(rows[i])
    BY <1>7
  <1> HIDE DEF parts
  <1>9. ASSUME NEW i \in 1..n
        PROVE  /\ parts[i] \in Seq(Seq(T)) /\ Len(parts[i]) = c
               /\ \A j \in DOMAIN parts[i] : Len(parts[i][j]) <= MaxPairsPerLine
               /\ FlattenSeq(parts[i]) = rows[i]
    BY <1>4, <1>7, <1>8, ChunksMakeTheRow
  <1>10. parts \in Seq(Seq(Seq(T))) /\ Len(parts) = n /\ DOMAIN parts = 1..n
    BY <1>8, <1>9, SequenceOf
  <1>11. Grid(chunks, parts, c, n) /\ chunks \in Seq(Seq(T))
    BY <1>9, <1>10, FlattenIsGrid
  <1>12. Flattened(parts) = rows
    <2>1. Flattened(parts) = [i \in 1..n |-> rows[i]]
      BY <1>9, <1>10 DEF Flattened
    <2>2. rows = [i \in 1..n |-> rows[i]]
      BY <1>6, <1>7
    <2> QED
      BY <2>1, <2>2
  <1>13. FlattenSeq(chunks) = FlattenSeq(rows)
    BY <1>10, <1>12, FlattenTwice
  <1>14. Grid(FlattenSeq(rows), rows, w, n)
    BY <1>6, <1>7, FlattenIsGrid
  <1> HIDE DEF chunks
  <1>15. Len(chunks) = n * c /\ DOMAIN chunks = 1..(n * c)
    BY <1>11 DEF Grid
  <1>16. ASSUME NEW x \in 1..(n * c) PROVE Len(chunks[x]) <= MaxPairsPerLine
    <2>1. PICK a \in 1..n, j \in 1..c : x = (a - 1) * c + j
      <3>1. /\ (x - 1) \div c + 1 \in 1..n /\ ((x - 1) % c) + 1 \in 1..c
            /\ x = (((x - 1) \div c + 1) - 1) * c + (((x - 1) % c) + 1)
        BY RowAndColumn
      <3> QED
        BY <3>1
    <2>2. chunks[x] = parts[a][j]
      BY <1>11, <2>1 DEF Grid
    <2>3. j \in DOMAIN parts[a]
      BY <1>9
    <2> QED
      BY <1>9, <2>2, <2>3
  <1>17. Len(FlattenSeq(chunks)) = ports * ports
    BY <1>5, <1>13, <1>14 DEF Grid
  <1>18. ASSUME NEW i \in 1..(ports * ports)
         PROVE  FlattenSeq(chunks)[i] = SampleAt(solved, PlaceOfPair(ports, i), point)
    <2>1. PICK a : a = (i - 1) \div w + 1
      OBVIOUS
    <2>2. PICK j : j = ((i - 1) % w) + 1
      OBVIOUS
    <2>3. a \in 1..n /\ j \in 1..w /\ i = (a - 1) * w + j
      BY <1>5, <2>1, <2>2, RowAndColumn
    <2>4. FlattenSeq(rows)[i] = rows[a][j]
      BY <1>14, <2>3 DEF Grid
    <2>5. rows[a][j] = SampleAt(solved, PlaceOfPair(ports, i), point)
      BY <1>6, <2>1, <2>2
    <2> QED
      BY <1>13, <2>4, <2>5
  <1>19. CarriesPoint(chunks, solved, ports, point)
    BY <1>15, <1>16, <1>17, <1>18 DEF CarriesPoint
  <1> QED
    BY <1>1, <1>5, <1>11, <1>15, <1>19 DEF PointChunks, chunks, parts, rows

DataLine(frequency, pairs) ==
  [mark |-> "data", text |-> <<>>, frequency |-> frequency, pairs |-> pairs]

\* A point's lines: only the first has a frequency.
FrequencyOfLine(solved, point, x) == IF x = 1 THEN solved.frequencies[point] ELSE None

PointLine(solved, ports, point, x) ==
  DataLine(FrequencyOfLine(solved, point, x), PointChunks(solved, ports, point)[x])

LEMMA LinesOfOnePoint ==
  ASSUME NEW solved, NEW ports \in Nat \ {0}, NEW point
  PROVE  TouchstonePointLines(solved, ports, point)
           = [x \in 1..LinesOfPoint(ports) |-> PointLine(solved, ports, point, x)]
  <1>1. PICK m \in Nat \ {0} : m = LinesOfPoint(ports)
    BY ShapeOfPoint
  <1> DEFINE chunks == PointChunks(solved, ports, point)
  <1>2. DOMAIN chunks = 1..m
    BY <1>1, ChunksCarryThePoint
  <1>3. TouchstonePointLines(solved, ports, point)
          = [x \in DOMAIN chunks |-> PointLine(solved, ports, point, x)]
    BY DEF TouchstonePointLines, PointChunks, PointLine, FrequencyOfLine, DataLine
  <1> QED
    BY <1>1, <1>2, <1>3

----------------------------------------------------------------------------
(* Part 3: the file as a reader takes it apart.                            *)

LEMMA StartsCounted ==
  ASSUME NEW m \in Nat \ {0}
  PROVE  /\ (0 + m - 1) \div m = 0
         /\ \A n \in Nat : (n * m + m - 1) \div m = n
         /\ \A x \in Nat : (x + m - 1) \div m \in Nat
         /\ \A x \in Nat : x % m = 0 =>
              /\ (x + 1 + m - 1) \div m = (x + m - 1) \div m + 1
              /\ x = ((x + m - 1) \div m) * m
         /\ \A x \in Nat : x % m # 0 => (x + 1 + m - 1) \div m = (x + m - 1) \div m
  <1>1. \A q, r \in Nat : r < m => (q * m + r) \div m = q
    OBVIOUS
  <1>2. \A x \in Nat : \E q, r \in Nat : x = q * m + r /\ r < m /\ r = x % m
    <2> TAKE x \in Nat
    <2>1. x = m * (x \div m) + (x % m) /\ x % m \in Nat /\ x % m < m
      OBVIOUS
    <2>2. x \div m \in Nat
      OBVIOUS
    <2> QED
      BY <2>1, <2>2
  <1>3. \A n \in Nat : (n * m + m - 1) \div m = n
    <2> TAKE n \in Nat
    <2>1. m - 1 \in Nat /\ m - 1 < m /\ n * m + m - 1 = n * m + (m - 1)
      OBVIOUS
    <2> QED
      BY <1>1, <2>1
  <1>4. ASSUME NEW x \in Nat
        PROVE  /\ (x + m - 1) \div m \in Nat
               /\ x % m = 0 => /\ (x + 1 + m - 1) \div m = (x + m - 1) \div m + 1
                               /\ x = ((x + m - 1) \div m) * m
               /\ x % m # 0 => (x + 1 + m - 1) \div m = (x + m - 1) \div m
    <2>1. PICK q \in Nat, r \in Nat : x = q * m + r /\ r < m /\ r = x % m
      BY <1>2
    <2>2. CASE r = 0
      <3>1. (x + m - 1) \div m = q
        BY <1>3, <2>1, <2>2
      <3>2. (q + 1) * m = q * m + m
        BY GridGrows
      <3>3. x + 1 + m - 1 = (q + 1) * m + 0
        <4>1. PICK z \in Nat : z = q * m
          BY GridGrows
        <4>2. PICK y : y = (q + 1) * m
          OBVIOUS
        <4>3. x = z /\ y = z + m
          BY <2>1, <2>2, <3>2, <4>1, <4>2
        <4> QED
          BY <4>2, <4>3
      <3>4. (x + 1 + m - 1) \div m = q + 1
        BY <1>1, <3>3
      <3>5. (x + m - 1) \div m \in Nat /\ x % m = 0
        BY <2>1, <2>2, <3>1
      <3>6. x = ((x + m - 1) \div m) * m
        BY <2>1, <2>2, <3>1
      <3> QED
        BY <3>1, <3>4, <3>5, <3>6
    <2>3. CASE r # 0
      <3>1. x + m - 1 = (q + 1) * m + (r - 1) /\ r - 1 \in Nat /\ r - 1 < m
        BY <2>1, <2>3
      <3>2. (x + m - 1) \div m = q + 1
        BY <1>1, <3>1
      <3>3. x + 1 + m - 1 = (q + 1) * m + r
        BY <2>1
      <3>4. (x + 1 + m - 1) \div m = q + 1
        BY <1>1, <2>1, <3>3
      <3> QED
        BY <2>1, <2>3, <3>2, <3>4
    <2> QED
      BY <2>2, <2>3
  <1>5. (0 + m - 1) \div m = 0
    <2>1. 0 * m + m - 1 = 0 + m - 1
      OBVIOUS
    <2> QED
      BY <1>3, <2>1
  <1> QED
    BY <1>3, <1>4, <1>5, Zenon

\* The first of every m places, up to place x.
StartsTo(v, m, x) ==
  /\ Len(v) = (x + m - 1) \div m
  /\ \A k \in 1..Len(v) : v[k] = (k - 1) * m + 1

LEMMA AppendedPlaces ==
  ASSUME NEW T, NEW v \in Seq(T), NEW e \in T, NEW q \in Nat, Len(v) = q
  PROVE  /\ Len(Append(v, e)) = q + 1
         /\ \A k \in 1..q : Append(v, e)[k] = v[k]
         /\ Append(v, e)[q + 1] = e
  BY AppendProperties

Numbered(size) == [i \in 1..size |-> i]

LEMMA StartsKept ==
  ASSUME NEW m \in Nat \ {0}, NEW size \in Nat,
         NEW chosen, \A i \in 1..size : i \in chosen <=> (i - 1) % m = 0
  PROVE  /\ StartsTo(Kept(Numbered(size), chosen), m, size)
         /\ Kept(Numbered(size), chosen) \in Seq(Int)
  <1> DEFINE s == Numbered(size)
  <1>1. s \in Seq(Int) /\ Len(s) = size /\ \A i \in 1..size : s[i] = i
    <2>1. s \in [1..size -> Int]
      BY DEF Numbered
    <2>2. \A i \in 1..size : s[i] = i
      BY DEF Numbered
    <2> HIDE DEF s
    <2> QED
      BY <2>1, <2>2
  <1> HIDE DEF s
  <1>0. PICK n \in Nat : \E f : /\ n = Len(s)
                                /\ KeptAlong(f, <<>>, s, chosen, n, Seq(Int))
                                /\ Kept(s, chosen) = f[n]
    BY <1>1, KeptTurns
  <1>2. PICK f : /\ KeptAlong(f, <<>>, s, chosen, size, Seq(Int))
                 /\ Kept(s, chosen) = f[size]
    BY <1>0, <1>1
  <1> DEFINE S == {x \in Nat : x <= size => StartsTo(f[x], m, x)}
  <1>3. 0 \in S
    <2>1. f[0] = <<>>
      BY <1>2 DEF KeptAlong
    <2>2. StartsTo(<<>>, m, 0)
      BY StartsCounted DEF StartsTo
    <2> QED
      BY <2>1, <2>2
  <1>4. ASSUME NEW x \in Nat, x \in S PROVE x + 1 \in S
    <2> SUFFICES ASSUME x + 1 <= size PROVE StartsTo(f[x + 1], m, x + 1)
      OBVIOUS
    <2>1. StartsTo(f[x], m, x)
      BY <1>4
    <2>2. x \in 0..size /\ x + 1 \in 1..size /\ (x + 1) - 1 = x
      OBVIOUS
    <2>3. f[x] \in Seq(Int) /\ f[x + 1] = KeptOn(f[x], s, chosen, x + 1)
      BY <1>2, <2>2 DEF KeptAlong
    <2>4. x + 1 \in chosen <=> x % m = 0
      BY <2>2
    <2>5. PICK q \in Nat : q = (x + m - 1) \div m
      BY StartsCounted
    <2>6. Len(f[x]) = q /\ \A k \in 1..q : f[x][k] = (k - 1) * m + 1
      BY <2>1, <2>5 DEF StartsTo
    <2>7. CASE x % m = 0
      <3>1. (x + 1 + m - 1) \div m = q + 1 /\ x = q * m
        BY <2>5, <2>7, StartsCounted
      <3>2. f[x + 1] = Append(f[x], x + 1)
        BY <1>1, <2>2, <2>3, <2>4, <2>7 DEF KeptOn
      <3>3. /\ Len(f[x + 1]) = q + 1
            /\ \A k \in 1..q : f[x + 1][k] = f[x][k]
            /\ f[x + 1][q + 1] = x + 1
        <4>1. x + 1 \in Int /\ f[x] \in Seq(Int) /\ Len(f[x]) = q
          BY <2>3, <2>6
        <4>2. /\ Len(Append(f[x], x + 1)) = q + 1
              /\ \A k \in 1..q : Append(f[x], x + 1)[k] = f[x][k]
              /\ Append(f[x], x + 1)[q + 1] = x + 1
          BY <4>1, AppendedPlaces
        <4> QED
          BY <3>2, <4>2, Zenon
      <3>4. ASSUME NEW k \in 1..(q + 1) PROVE f[x + 1][k] = (k - 1) * m + 1
        <4>1. CASE k \in 1..q
          BY <2>6, <3>3, <4>1
        <4>2. CASE k = q + 1
          <5>1. (k - 1) * m = q * m
            BY <4>2
          <5> QED
            BY <3>1, <3>3, <4>2, <5>1
        <4> QED
          BY <4>1, <4>2
      <3> QED
        BY <3>1, <3>3, <3>4 DEF StartsTo
    <2>8. CASE x % m # 0
      <3>1. (x + 1 + m - 1) \div m = q
        BY <2>5, <2>8, StartsCounted
      <3>2. f[x + 1] = f[x]
        BY <2>3, <2>4, <2>8 DEF KeptOn
      <3> QED
        BY <2>6, <3>1, <3>2 DEF StartsTo
    <2> QED
      BY <2>7, <2>8
  <1> HIDE DEF S
  <1>5. size \in S /\ size <= size
    BY <1>3, <1>4, NatSetInduction
  <1>6. f[size] \in Seq(Int)
    BY <1>2 DEF KeptAlong
  <1> QED
    BY <1>2, <1>5, <1>6 DEF S, s

\* A file is two lines that are not data and then the lines that are.
HeaderThenData(file, first, second, data) ==
  /\ DataLines(file) = data
  /\ file # <<>>
  /\ \A i \in DOMAIN file :
       file[i] \in {first, second} \/ \E j \in DOMAIN data : file[i] = data[j]

LEMMA DataAfterHeader ==
  ASSUME NEW U, NEW first \in U, NEW second \in U, NEW data \in Seq(U),
         first.mark # "data", second.mark # "data",
         \A i \in DOMAIN data : data[i].mark = "data"
  PROVE  HeaderThenData(<<first>> \o <<second>> \o data, first, second, data)
  <1>1. PICK size \in Nat : size = Len(data) /\ DOMAIN data = 1..size
    OBVIOUS
  <1> DEFINE head == <<first>> \o <<second>>
             file == head \o data
             chosen == {i \in DOMAIN file : file[i].mark = "data"}
  <1>2. head \in Seq(U) /\ Len(head) = 2 /\ head[1] = first /\ head[2] = second
    OBVIOUS
  <1> HIDE DEF head
  <1>3. file \in Seq(U) /\ Joined(file, head, data, 2, size)
    <2>1. file \in Seq(U)
      BY <1>2
    <2> QED
      BY <1>1, <1>2, <2>1, JoinedPlaces
  <1> HIDE DEF file
  <1>4. /\ Len(file) = 2 + size /\ DOMAIN file = 1..(2 + size)
        /\ file[1] = first /\ file[2] = second
        /\ \A i \in 1..size : file[2 + i] = data[i]
    BY <1>2, <1>3 DEF Joined
  <1>5. ASSUME NEW i \in DOMAIN file
        PROVE  \/ i = 1 /\ file[i] = first
               \/ i = 2 /\ file[i] = second
               \/ \E j \in 1..size : i = 2 + j /\ file[i] = data[j]
    <2>1. i = 1 \/ i = 2 \/ (i - 2 \in 1..size /\ i = 2 + (i - 2))
      BY <1>4
    <2> QED
      BY <1>4, <2>1
  <1>6. \A i \in DOMAIN file : i \in chosen <=> i \in (2 + 1)..(2 + size)
    <2> TAKE i \in DOMAIN file
    <2>1. i \in chosen <=> file[i].mark = "data"
      OBVIOUS
    <2> HIDE DEF chosen
    <2>2. CASE i = 1 /\ file[i] = first
      BY <2>1, <2>2
    <2>3. CASE i = 2 /\ file[i] = second
      BY <2>1, <2>3
    <2>4. CASE \E j \in 1..size : i = 2 + j /\ file[i] = data[j]
      <3>1. PICK j \in 1..size : i = 2 + j /\ file[i] = data[j]
        BY <2>4
      <3>2. data[j].mark = "data"
        BY <1>1
      <3> QED
        BY <2>1, <3>1, <3>2
    <2> QED
      BY <1>5, <2>2, <2>3, <2>4
  <1> HIDE DEF chosen
  <1>7. Kept(file, chosen) \in Seq(U)
    BY <1>3, KeptHolds
  <1>8. Run(Kept(file, chosen), file, 2, size)
    <2>1. 2 \in Nat /\ 2 + size <= Len(file)
      BY <1>4
    <2> QED
      BY <1>3, <1>6, <2>1, KeptIsTheRun
  <1>9. Kept(file, chosen) = data
    <2>1. Len(Kept(file, chosen)) = size /\ \A j \in 1..size : Kept(file, chosen)[j] = data[j]
      BY <1>4, <1>8 DEF Run
    <2> QED
      BY <1>1, <1>7, <2>1, SeqEqual
  <1>10. DataLines(file) = data
    BY <1>9 DEF DataLines, chosen
  <1>11. file # <<>>
    BY <1>4
  <1>12. \A i \in DOMAIN file :
           file[i] \in {first, second} \/ \E j \in DOMAIN data : file[i] = data[j]
    BY <1>1, <1>5
  <1>13. HeaderThenData(file, first, second, data)
    BY <1>10, <1>11, <1>12 DEF HeaderThenData
  <1> QED
    BY <1>13 DEF file, head

\* The blocks of a file's points are as long as one another.
PointBlocks(solved, ports) ==
  [point \in DOMAIN solved.frequencies |-> TouchstonePointLines(solved, ports, point)]

BlockLines(solved, ports, n, m) ==
  {PointBlocks(solved, ports)[k][x] : k \in 1..n, x \in 1..m}

LEMMA BlocksAreAGrid ==
  ASSUME NEW solved, NEW ports \in Nat \ {0}, NEW n \in Nat, NEW m \in Nat \ {0},
         m = LinesOfPoint(ports), DOMAIN solved.frequencies = 1..n
  PROVE  LET blocks == PointBlocks(solved, ports)
             data == FlattenSeq(blocks)
         IN /\ data \in Seq(BlockLines(solved, ports, n, m))
            /\ DOMAIN data = 1..(n * m)
            /\ \A k \in 1..n : \A x \in 1..m :
                 data[(k - 1) * m + x] = PointLine(solved, ports, k, x)
  <1> DEFINE blocks == PointBlocks(solved, ports)
             U == BlockLines(solved, ports, n, m)
  <1>1. blocks = [k \in 1..n |-> blocks[k]]
    BY DEF PointBlocks
  <1>2. ASSUME NEW k \in 1..n
        PROVE  blocks[k] = [x \in 1..m |-> PointLine(solved, ports, k, x)]
    <2>1. blocks[k] = TouchstonePointLines(solved, ports, k)
      BY DEF PointBlocks
    <2> HIDE DEF blocks
    <2> QED
      BY <2>1, LinesOfOnePoint
  <1>3. \A k \in 1..n : \A x \in 1..m : blocks[k][x] \in U
    BY DEF BlockLines
  <1> HIDE DEF blocks, U
  <1>4. ASSUME NEW k \in 1..n PROVE blocks[k] \in Seq(U) /\ Len(blocks[k]) = m
    <2>1. PICK b : b = blocks[k]
      OBVIOUS
    <2>2. b = [x \in 1..m |-> b[x]] /\ \A x \in 1..m : b[x] \in U
      BY <1>2, <1>3, <2>1
    <2> QED
      BY <2>1, <2>2, SequenceOf
  <1>5. blocks \in Seq(Seq(U)) /\ Len(blocks) = n /\ DOMAIN blocks = 1..n
    BY <1>1, <1>4, SequenceOf
  <1>6. FlattenSeq(blocks) \in Seq(U) /\ Grid(FlattenSeq(blocks), blocks, m, n)
    BY <1>4, <1>5, FlattenIsGrid
  <1>7. Len(FlattenSeq(blocks)) = n * m /\ n * m \in Nat
    BY <1>6 DEF Grid
  <1>8. DOMAIN FlattenSeq(blocks) = 1..(n * m)
    BY <1>6, <1>7
  <1>9. ASSUME NEW k \in 1..n, NEW x \in 1..m
        PROVE  FlattenSeq(blocks)[(k - 1) * m + x] = PointLine(solved, ports, k, x)
    <2>1. FlattenSeq(blocks)[(k - 1) * m + x] = blocks[k][x]
      BY <1>6 DEF Grid
    <2>2. blocks[k][x] = PointLine(solved, ports, k, x)
      BY <1>2
    <2> QED
      BY <2>1, <2>2
  <1> QED
    BY <1>6, <1>8, <1>9 DEF blocks, U

\* Lines that are the points' lines, one point after the other.
ArePoints(data, solved, ports, n, m) ==
  /\ DOMAIN data = 1..(n * m)
  /\ \A k \in 1..n : \A x \in 1..m :
       data[(k - 1) * m + x] = PointLine(solved, ports, k, x)

LEMMA FieldsOfLine ==
  ASSUME NEW solved, NEW ports, NEW k, NEW x
  PROVE  /\ PointLine(solved, ports, k, x).frequency = FrequencyOfLine(solved, k, x)
         /\ PointLine(solved, ports, k, x).pairs = PointChunks(solved, ports, k)[x]
         /\ PointLine(solved, ports, k, x).mark = "data"
         /\ PointLine(solved, ports, k, x).text = <<>>
  BY DEF PointLine, DataLine

\* Where the points of such lines start.
StartsAre(starts, data, solved, n, m) ==
  /\ Len(starts) = n
  /\ \A k \in 1..n : /\ starts[k] = (k - 1) * m + 1
                     /\ data[starts[k]].frequency = solved.frequencies[k]

SweptTo(solved, n) == \A k \in 1..n : solved.frequencies[k] # None

LEMMA PointsStart ==
  ASSUME NEW solved, NEW ports \in Nat \ {0}, NEW n \in Nat, NEW m \in Nat \ {0}, NEW data,
         ArePoints(data, solved, ports, n, m), SweptTo(solved, n)
  PROVE  StartsAre(PointStarts(data), data, solved, n, m)
  <1>1. PICK size \in Nat : size = n * m
    BY GridGrows
  <1>2. DOMAIN data = 1..size
    BY <1>1 DEF ArePoints
  <1> DEFINE chosen == {i \in DOMAIN data : data[i].frequency # None}
  <1>3. PointStarts(data) = Kept(Numbered(size), chosen)
    BY <1>2 DEF PointStarts, Numbered
  <1>4. ASSUME NEW k \in 1..n, NEW x \in 1..m
        PROVE  data[(k - 1) * m + x].frequency = FrequencyOfLine(solved, k, x)
    <2> HIDE DEF chosen
    <2>1. data[(k - 1) * m + x] = PointLine(solved, ports, k, x)
      BY DEF ArePoints
    <2> QED
      BY <2>1, FieldsOfLine
  <1>5. \A i \in 1..size : i \in chosen <=> data[i].frequency # None
    BY <1>2
  <1> HIDE DEF chosen
  <1>6. ASSUME NEW i \in 1..size PROVE i \in chosen <=> (i - 1) % m = 0
    <2>1. PICK k : k = (i - 1) \div m + 1
      OBVIOUS
    <2>2. PICK x : x = ((i - 1) % m) + 1
      OBVIOUS
    <2>3. k \in 1..n /\ x \in 1..m /\ i = (k - 1) * m + x /\ (i - 1) % m \in Nat
      BY <1>1, <2>1, <2>2, RowAndColumn
    <2>4. data[i].frequency = FrequencyOfLine(solved, k, x)
      BY <1>4, <2>3
    <2>5. i \in chosen <=> x = 1
      BY <1>5, <2>3, <2>4 DEF FrequencyOfLine, SweptTo
    <2> QED
      BY <2>2, <2>3, <2>5
  <1>7. StartsTo(PointStarts(data), m, size)
    BY <1>3, <1>6, StartsKept
  <1>8. (size + m - 1) \div m = n
    BY <1>1, StartsCounted
  <1>9. Len(PointStarts(data)) = n /\ \A k \in 1..n : PointStarts(data)[k] = (k - 1) * m + 1
    BY <1>7, <1>8 DEF StartsTo
  <1>10. ASSUME NEW k \in 1..n
         PROVE  data[PointStarts(data)[k]].frequency = solved.frequencies[k]
    <2>1. 1 \in 1..m
      OBVIOUS
    <2>2. data[(k - 1) * m + 1].frequency = solved.frequencies[k]
      BY <1>4, <2>1 DEF FrequencyOfLine
    <2> QED
      BY <1>9, <2>2
  <1> QED
    BY <1>9, <1>10 DEF StartsAre

\* The pairs between two starts are the point's.
LEMMA PairsAreThePoints ==
  ASSUME NEW solved, NEW ports \in Nat \ {0}, NEW n \in Nat, NEW m \in Nat \ {0}, NEW data,
         ArePoints(data, solved, ports, n, m), SweptTo(solved, n), NEW k \in 1..n
  PROVE  m = LinesOfPoint(ports) /\ Len(data) = n * m
           => PairsOfPoint(data, k) = FlattenSeq(PointChunks(solved, ports, k))
  <1>0. SUFFICES ASSUME m = LinesOfPoint(ports), Len(data) = n * m
                 PROVE  PairsOfPoint(data, k) = FlattenSeq(PointChunks(solved, ports, k))
    OBVIOUS
  <1>1. PICK starts : starts = PointStarts(data)
    OBVIOUS
  <1>2. Len(starts) = n /\ \A j \in 1..n : starts[j] = (j - 1) * m + 1
    <2>1. StartsAre(PointStarts(data), data, solved, n, m)
      BY PointsStart
    <2> QED
      BY <1>1, <2>1 DEF StartsAre
  <1>3. PICK from \in Nat : from = (k - 1) * m
    <2>1. k - 1 \in Nat
      OBVIOUS
    <2> QED
      BY <2>1, GridGrows
  <1>4. starts[k] = from + 1
    BY <1>2, <1>3
  <1>5. k * m = from + m
    <2>1. k - 1 \in Nat /\ (k - 1) + 1 = k
      OBVIOUS
    <2> QED
      BY <1>3, <2>1, GridGrows
  <1> DEFINE last == IF k < Len(starts) THEN starts[k + 1] - 1 ELSE Len(data)
  <1>6. last = from + m
    <2>1. CASE k < n
      <3>1. k + 1 \in 1..n /\ (k + 1) - 1 = k
        BY <2>1
      <3>2. starts[k + 1] = k * m + 1
        BY <1>2, <3>1
      <3> QED
        BY <1>2, <1>5, <2>1, <3>2
    <2>2. CASE ~(k < n)
      <3>1. k = n
        BY <2>2
      <3>2. Len(data) = k * m
        BY <1>0, <3>1
      <3> QED
        BY <1>2, <1>5, <2>2, <3>2
    <2> QED
      BY <2>1, <2>2
  <1> DEFINE chunks == PointChunks(solved, ports, k)
             read == [i \in 1..(last - starts[k] + 1) |-> data[starts[k] + i - 1].pairs]
  <1>7. PairsOfPoint(data, k) = FlattenSeq(read)
    BY <1>1 DEF PairsOfPoint
  <1> HIDE DEF last
  <1>8. last - starts[k] + 1 = m
    BY <1>4, <1>6
  <1>9. read = [i \in 1..m |-> data[starts[k] + i - 1].pairs]
    BY <1>8
  <1> HIDE DEF read
  <1>10. \A i \in 1..m : read[i] = chunks[i]
    <2> TAKE i \in 1..m
    <2>1. starts[k] + i - 1 = (k - 1) * m + i
      BY <1>3, <1>4
    <2>2. data[(k - 1) * m + i] = PointLine(solved, ports, k, i)
      BY DEF ArePoints
    <2>3. data[(k - 1) * m + i].pairs = chunks[i]
      BY <2>2, FieldsOfLine
    <2> QED
      BY <1>9, <2>1, <2>3
  <1>11. chunks \in Seq(Seq(Samples(solved, ports, k))) /\ Len(chunks) = m
    BY <1>0, ChunksCarryThePoint
  <1> HIDE DEF chunks
  <1>12. chunks = [i \in 1..m |-> chunks[i]]
    BY <1>11
  <1>13. read = chunks
    BY <1>9, <1>10, <1>12
  <1> QED
    BY <1>7, <1>13 DEF chunks

----------------------------------------------------------------------------
(* Part 4: a CSV field.                                                    *)

\* Where the sequences lie once they are end to end.
Placed(f, seqs, n) ==
  \A i \in 1..n : /\ Len(f[i]) = Len(f[i - 1]) + Len(seqs[i])
                  /\ Len(f[i]) <= Len(f[n])
                  /\ \A j \in 1..Len(seqs[i]) : f[n][Len(f[i - 1]) + j] = seqs[i][j]

LEMMA FlattenPlaces ==
  ASSUME NEW T, NEW n \in Nat, NEW seqs, \A i \in 1..n : seqs[i] \in Seq(T),
         NEW f, FlatAlong(f, seqs, n, Seq(T))
  PROVE  Placed(f, seqs, n)
  <1>1. ASSUME NEW i \in 1..n
        PROVE  /\ f[i - 1] \in Seq(T) /\ f[i] \in Seq(T)
               /\ Joined(f[i], f[i - 1], seqs[i], Len(f[i - 1]), Len(seqs[i]))
    <2>1. i - 1 \in 0..n /\ i \in 0..n
      OBVIOUS
    <2>2. f[i - 1] \in Seq(T) /\ f[i] \in Seq(T) /\ f[i] = Put(f[i - 1], seqs[i])
      BY <2>1 DEF FlatAlong
    <2>3. Len(f[i - 1]) \in Nat /\ Len(seqs[i]) \in Nat
      BY <2>2
    <2> QED
      BY <2>2, <2>3, JoinedPlaces DEF Put
  <1>2. \A i \in 1..n : /\ Len(f[i - 1]) \in Nat /\ Len(seqs[i]) \in Nat
                        /\ Len(f[i]) = Len(f[i - 1]) + Len(seqs[i])
    <2> TAKE i \in 1..n
    <2>1. f[i - 1] \in Seq(T) /\ seqs[i] \in Seq(T)
      BY <1>1
    <2>2. Len(f[i - 1]) \in Nat /\ Len(seqs[i]) \in Nat
      BY <2>1
    <2>3. Joined(f[i], f[i - 1], seqs[i], Len(f[i - 1]), Len(seqs[i]))
      BY <1>1
    <2>4. Len(f[i]) = Len(f[i - 1]) + Len(seqs[i])
      BY <2>3 DEF Joined
    <2> QED
      BY <2>2, <2>4
  <1> DEFINE Here(k) == \A i \in 1..k : /\ Len(f[i]) <= Len(f[k])
                                        /\ \A j \in 1..Len(seqs[i]) :
                                             f[k][Len(f[i - 1]) + j] = seqs[i][j]
             S == {k \in Nat : k <= n => Here(k)}
  <1>3. 0 \in S
    OBVIOUS
  <1>4. ASSUME NEW k \in Nat, k \in S PROVE k + 1 \in S
    <2> SUFFICES ASSUME k + 1 <= n PROVE Here(k + 1)
      OBVIOUS
    <2>1. Here(k)
      BY <1>4
    <2>2. k + 1 \in 1..n /\ (k + 1) - 1 = k
      OBVIOUS
    <2>3. PICK a \in Nat : a = Len(f[k])
      BY <1>2, <2>2
    <2>4. PICK b \in Nat : b = Len(seqs[k + 1])
      BY <1>2, <2>2
    <2>5. Joined(f[k + 1], f[k], seqs[k + 1], a, b)
      BY <1>1, <2>2, <2>3, <2>4
    <2>6. Len(f[k + 1]) = a + b
      BY <2>5 DEF Joined
    <2>7. ASSUME NEW i \in 1..(k + 1)
          PROVE  /\ Len(f[i]) <= Len(f[k + 1])
                 /\ \A j \in 1..Len(seqs[i]) : f[k + 1][Len(f[i - 1]) + j] = seqs[i][j]
      <3>1. CASE i \in 1..k
        <4>1. Len(f[i]) <= a /\ i \in 1..n /\ Len(f[i]) \in Nat
          BY <1>2, <2>1, <2>3, <3>1
        <4>2. ASSUME NEW j \in 1..Len(seqs[i])
              PROVE  f[k + 1][Len(f[i - 1]) + j] = seqs[i][j]
          <5>1. PICK x : x = Len(f[i - 1]) + j
            OBVIOUS
          <5>2. x \in 1..a
            <6>1. PICK c \in Nat : c = Len(f[i - 1])
              BY <1>2, <4>1
            <6>2. PICK d \in Nat : d = Len(seqs[i])
              BY <1>2, <4>1
            <6>3. PICK e \in Nat : e = Len(f[i])
              BY <4>1
            <6>4. e = c + d /\ e <= a
              BY <1>2, <4>1, <6>1, <6>2, <6>3
            <6>5. j \in 1..d /\ x = c + j
              BY <5>1, <6>1, <6>2
            <6> QED
              BY <6>4, <6>5
          <5>3. f[k][x] = seqs[i][j]
            BY <2>1, <3>1, <5>1
          <5>4. f[k + 1][x] = f[k][x]
            BY <2>5, <5>2 DEF Joined
          <5> QED
            BY <5>1, <5>3, <5>4
        <4> QED
          BY <2>6, <4>1, <4>2
      <3>2. CASE i = k + 1
        <4>1. \A j \in 1..b : f[k + 1][a + j] = seqs[k + 1][j]
          BY <2>5 DEF Joined
        <4>2. Len(f[i - 1]) = a /\ Len(seqs[i]) = b
          BY <2>2, <2>3, <2>4, <3>2
        <4> QED
          BY <2>6, <3>2, <4>1, <4>2
      <3> QED
        BY <3>1, <3>2
    <2> QED
      BY <2>7
  <1> HIDE DEF S
  <1>5. n \in S /\ n <= n
    BY <1>3, <1>4, NatSetInduction
  <1>6. Here(n)
    BY <1>5 DEF S
  <1> QED
    BY <1>2, <1>6 DEF Placed

\* How many quotes there are up to a place.
Quotes(inner, x) == Cardinality({j \in 1..x : inner[j] = "quote"})

LEMMA QuotesCounted ==
  ASSUME NEW inner, NEW x \in Nat
  PROVE  /\ Quotes(inner, 0) = 0
         /\ Quotes(inner, x) \in Nat
         /\ inner[x + 1] = "quote" => Quotes(inner, x + 1) = Quotes(inner, x) + 1
         /\ inner[x + 1] # "quote" => Quotes(inner, x + 1) = Quotes(inner, x)
  <1> DEFINE Q(y) == {j \in 1..y : inner[j] = "quote"}
  <1>1. Q(0) = {}
    OBVIOUS
  <1>2. IsFiniteSet(Q(x))
    <2>1. 1 \in Int /\ x \in Int
      OBVIOUS
    <2>2. IsFiniteSet(1..x)
      BY <2>1, FS_Interval
    <2>3. Q(x) \subseteq 1..x
      OBVIOUS
    <2> QED
      BY <2>2, <2>3, FS_Subset
  <1>3. x + 1 \notin Q(x)
    OBVIOUS
  <1>4. inner[x + 1] = "quote" => Q(x + 1) = Q(x) \cup {x + 1}
    OBVIOUS
  <1>5. inner[x + 1] # "quote" => Q(x + 1) = Q(x)
    OBVIOUS
  <1> HIDE DEF Q
  <1>6. Cardinality(Q(x)) \in Nat
    BY <1>2, FS_CardinalityType
  <1>7. Cardinality(Q(x) \cup {x + 1}) = Cardinality(Q(x)) + 1
    BY <1>2, <1>3, FS_AddElement
  <1>8. Cardinality(Q(0)) = 0
    BY <1>1, FS_EmptySet
  <1>9. \A y : Quotes(inner, y) = Cardinality(Q(y))
    BY DEF Quotes, Q
  <1> QED
    BY <1>4, <1>5, <1>6, <1>7, <1>8, <1>9, Zenon

Doubled(chars) ==
  [i \in DOMAIN chars |->
     IF chars[i] = "quote" THEN <<"quote", "quote">> ELSE <<chars[i]>>]

\* The places a reader keeps: of two quotes, the second.
ReadChosen(inner) ==
  {i \in DOMAIN inner : inner[i] # "quote" \/ Quotes(inner, i) % 2 = 0}

Copies(v, chars, k) == Len(v) = k /\ \A i \in 1..k : v[i] = chars[i]

LEMMA CopiesGrow ==
  ASSUME NEW U, NEW v \in Seq(U), NEW chars, NEW k \in Nat, chars[k + 1] \in U,
         Copies(v, chars, k)
  PROVE  Copies(Append(v, chars[k + 1]), chars, k + 1)
  <1>1. Len(v) = k /\ \A i \in 1..k : v[i] = chars[i]
    BY DEF Copies
  <1>2. PICK e \in U : e = chars[k + 1]
    OBVIOUS
  <1>3. /\ Len(Append(v, e)) = k + 1
        /\ \A i \in 1..k : Append(v, e)[i] = v[i]
        /\ Append(v, e)[k + 1] = e
    BY <1>1, AppendedPlaces
  <1>4. \A i \in 1..(k + 1) : i \in 1..k \/ i = k + 1
    OBVIOUS
  <1>5. \A i \in 1..(k + 1) : Append(v, e)[i] = chars[i]
    BY <1>1, <1>2, <1>3, <1>4
  <1> QED
    BY <1>2, <1>3, <1>5 DEF Copies

\* One place further, a reader keeps it or not.
LEMMA NextKept ==
  ASSUME NEW U, NEW h, NEW inner, NEW chosen, NEW size \in Nat, NEW a \in Nat,
         KeptAlong(h, <<>>, inner, chosen, size, Seq(U)), a + 1 <= size
  PROVE  /\ h[a] \in Seq(U)
         /\ a + 1 \in chosen => h[a + 1] = Append(h[a], inner[a + 1])
         /\ a + 1 \notin chosen => h[a + 1] = h[a]
  <1>1. a \in 0..size /\ a + 1 \in 1..size /\ (a + 1) - 1 = a
    OBVIOUS
  <1>2. h[a] \in Seq(U) /\ h[a + 1] = KeptOn(h[a], inner, chosen, a + 1)
    BY <1>1 DEF KeptAlong
  <1> QED
    BY <1>2 DEF KeptOn

\* A text with its quotes doubled is read as the text.
LEMMA DoubledIsRead ==
  ASSUME NEW T, NEW chars \in Seq(T)
  PROVE  /\ FlattenSeq(Doubled(chars)) \in Seq(T \cup {"quote"})
         /\ Kept(FlattenSeq(Doubled(chars)), ReadChosen(FlattenSeq(Doubled(chars)))) = chars
  <1>1. PICK U : U = T \cup {"quote"}
    OBVIOUS
  <1>2. PICK n \in Nat : n = Len(chars)
    OBVIOUS
  <1>3. DOMAIN chars = 1..n /\ \A i \in 1..n : chars[i] \in U
    BY <1>1, <1>2
  <1>4. PICK doubled : doubled = Doubled(chars)
    OBVIOUS
  <1>5. ASSUME NEW i \in 1..n
        PROVE  /\ doubled[i] \in Seq(U)
               /\ chars[i] = "quote" => doubled[i] = <<"quote", "quote">>
               /\ chars[i] # "quote" => doubled[i] = <<chars[i]>>
    <2>1. doubled[i] = IF chars[i] = "quote" THEN <<"quote", "quote">> ELSE <<chars[i]>>
      BY <1>3, <1>4 DEF Doubled
    <2>2. <<"quote", "quote">> \in Seq(U) /\ <<chars[i]>> \in Seq(U)
      BY <1>1, <1>3
    <2> QED
      BY <2>1, <2>2
  <1>6. doubled \in Seq(Seq(U)) /\ Len(doubled) = n
    <2>1. doubled = [i \in 1..n |-> doubled[i]]
      BY <1>3, <1>4 DEF Doubled
    <2> QED
      BY <1>5, <2>1, SequenceOf
  <1>7. PICK f : FlatAlong(f, doubled, n, Seq(U)) /\ FlattenSeq(doubled) = f[n]
    BY <1>6, FlattenRuns
  <1>8. PICK inner : inner = FlattenSeq(doubled)
    OBVIOUS
  <1>9. inner \in Seq(U) /\ inner = f[n]
    BY <1>6, <1>7, <1>8, FlattenTyped
  <1>10. PICK size \in Nat : size = Len(inner) /\ DOMAIN inner = 1..size
    BY <1>9
  <1>11. ASSUME NEW k \in Nat, k + 1 <= n
         PROVE  /\ Len(f[k]) \in Nat /\ Len(f[k + 1]) = Len(f[k]) + Len(doubled[k + 1])
                /\ Len(f[k + 1]) <= size
                /\ \A j \in 1..Len(doubled[k + 1]) : inner[Len(f[k]) + j] = doubled[k + 1][j]
    <2>1. k + 1 \in 1..n /\ (k + 1) - 1 = k /\ k \in 0..n
      BY <1>11
    <2>2. f[k] \in Seq(U)
      BY <1>7, <2>1 DEF FlatAlong
    <2>3. Len(f[k]) \in Nat
      BY <2>2
    <2>4. \A i \in 1..n : doubled[i] \in Seq(U)
      BY <1>5
    <2>5. Placed(f, doubled, n)
      BY <1>7, <2>4, FlattenPlaces
    <2>6. /\ Len(f[k + 1]) = Len(f[k]) + Len(doubled[k + 1])
          /\ Len(f[k + 1]) <= Len(f[n])
          /\ \A j \in 1..Len(doubled[k + 1]) :
               f[n][Len(f[k]) + j] = doubled[k + 1][j]
      BY <2>1, <2>5 DEF Placed
    <2>7. inner = f[n] /\ size = Len(f[n])
      BY <1>9, <1>10
    <2> QED
      BY <2>3, <2>6, <2>7
  <1>12. PICK chosen : chosen = ReadChosen(inner)
    OBVIOUS
  <1>13. \A i \in 1..size :
           i \in chosen <=> (inner[i] # "quote" \/ Quotes(inner, i) % 2 = 0)
    BY <1>10, <1>12 DEF ReadChosen
  <1>14. PICK h : /\ KeptAlong(h, <<>>, inner, chosen, size, Seq(U))
                  /\ Kept(inner, chosen) = h[size]
    <2>1. PICK m : \E h : /\ m = Len(inner) /\ m \in Nat
                          /\ KeptAlong(h, <<>>, inner, chosen, m, Seq(U))
                          /\ Kept(inner, chosen) = h[m]
      BY <1>9, KeptTurns
    <2>2. m = size
      BY <1>10, <2>1
    <2> QED
      BY <2>1, <2>2
  <1> DEFINE Done(k) == /\ Quotes(inner, Len(f[k])) % 2 = 0
                        /\ Copies(h[Len(f[k])], chars, k)
             S == {k \in Nat : k <= n => Done(k)}
  <1>15. 0 \in S
    <2>1. f[0] = <<>>
      BY <1>7 DEF FlatAlong
    <2>2. Len(f[0]) = 0
      BY <2>1
    <2>3. h[0] = <<>>
      BY <1>14 DEF KeptAlong
    <2>4. Quotes(inner, 0) = 0
      BY QuotesCounted
    <2>5. Copies(<<>>, chars, 0)
      BY DEF Copies
    <2>6. 0 % 2 = 0
      OBVIOUS
    <2> QED
      BY <2>2, <2>3, <2>4, <2>5, <2>6
  <1>16. ASSUME NEW k \in Nat, k \in S PROVE k + 1 \in S
    <2> SUFFICES ASSUME k + 1 <= n PROVE Done(k + 1)
      OBVIOUS
    <2>1. PICK a \in Nat : a = Len(f[k])
      BY <1>11
    <2>2. Quotes(inner, a) % 2 = 0 /\ Copies(h[a], chars, k)
      BY <1>16, <2>1
    <2>3. PICK b : b = Len(f[k + 1])
      OBVIOUS
    <2>4. PICK d : d = doubled[k + 1]
      OBVIOUS
    <2>5. b = a + Len(d) /\ b <= size /\ \A j \in 1..Len(d) : inner[a + j] = d[j]
      BY <1>11, <2>1, <2>3, <2>4
    <2>6. PICK q \in Nat : q = Quotes(inner, a)
      BY QuotesCounted
    <2>7. q % 2 = 0 /\ (q + 1) % 2 # 0 /\ (q + 2) % 2 = 0
      BY <2>2, <2>6
    <2>8. k + 1 \in 1..n
      OBVIOUS
    <2> SUFFICES Quotes(inner, b) % 2 = 0 /\ Copies(h[b], chars, k + 1)
      BY <2>3
    <2>9. CASE chars[k + 1] = "quote"
      <3>1. d = <<"quote", "quote">>
        BY <1>5, <2>4, <2>8, <2>9
      <3>2. Len(d) = 2 /\ d[1] = "quote" /\ d[2] = "quote"
        BY <3>1
      <3>3. b = a + 2 /\ a + 2 <= size /\ inner[a + 1] = "quote" /\ inner[a + 2] = "quote"
        BY <2>5, <3>2
      <3>4. Quotes(inner, a + 1) = q + 1
        BY <2>6, <3>3, QuotesCounted
      <3>5. Quotes(inner, a + 2) = q + 2
        <4>1. a + 1 \in Nat /\ (a + 1) + 1 = a + 2
          OBVIOUS
        <4>2. Quotes(inner, (a + 1) + 1) = Quotes(inner, a + 1) + 1
          BY <3>3, <4>1, QuotesCounted
        <4> QED
          BY <3>4, <4>1, <4>2
      <3>6. a + 1 \in 1..size /\ a + 2 \in 1..size
        BY <3>3
      <3>7. a + 1 \notin chosen
        BY <1>13, <2>7, <3>3, <3>4, <3>6
      <3>8. a + 2 \in chosen
        BY <1>13, <2>7, <3>5, <3>6
      <3>9. h[a] \in Seq(U) /\ h[a + 1] = h[a]
        BY <1>14, <3>6, <3>7, NextKept
      <3>10. h[a + 2] = Append(h[a + 1], inner[a + 2])
        <4>1. a + 1 \in Nat /\ (a + 1) + 1 = a + 2 /\ (a + 1) + 1 <= size
          BY <3>6
        <4>2. (a + 1) + 1 \in chosen
          BY <3>8, <4>1
        <4>3. h[(a + 1) + 1] = Append(h[a + 1], inner[(a + 1) + 1])
          BY <1>14, <4>1, <4>2, NextKept
        <4> QED
          BY <4>1, <4>3
      <3>11. h[b] = Append(h[a], chars[k + 1])
        BY <2>9, <3>3, <3>9, <3>10
      <3>12. Copies(h[b], chars, k + 1)
        BY <1>3, <2>2, <2>8, <3>9, <3>11, CopiesGrow
      <3> QED
        BY <2>7, <3>3, <3>5, <3>12
    <2>10. CASE chars[k + 1] # "quote"
      <3>1. d = <<chars[k + 1]>>
        BY <1>5, <2>4, <2>8, <2>10
      <3>2. Len(d) = 1 /\ d[1] = chars[k + 1]
        BY <3>1
      <3>3. b = a + 1 /\ a + 1 <= size /\ inner[a + 1] = chars[k + 1]
        BY <2>5, <3>2
      <3>4. Quotes(inner, a + 1) = q
        BY <2>6, <2>10, <3>3, QuotesCounted
      <3>5. a + 1 \in chosen
        BY <1>13, <2>10, <3>3
      <3>6. h[a] \in Seq(U) /\ h[a + 1] = Append(h[a], inner[a + 1])
        BY <1>14, <3>3, <3>5, NextKept
      <3>7. Copies(h[b], chars, k + 1)
        BY <1>3, <2>2, <2>8, <3>3, <3>6, CopiesGrow
      <3> QED
        BY <2>7, <3>3, <3>4, <3>7
    <2> QED
      BY <2>9, <2>10
  <1> HIDE DEF S
  <1>17. n \in S /\ n <= n
    BY <1>15, <1>16, NatSetInduction
  <1>18. Copies(h[size], chars, n)
    <2>1. Done(n)
      BY <1>17 DEF S
    <2> QED
      BY <1>9, <1>10, <2>1
  <1>19. h[size] \in Seq(U)
    <2>1. size \in 0..size
      OBVIOUS
    <2> QED
      BY <1>14, <2>1 DEF KeptAlong
  <1>20. chars \in Seq(U)
    BY <1>1
  <1>21. h[size] = chars
    BY <1>2, <1>18, <1>19, <1>20, SeqEqual DEF Copies
  <1> QED
    BY <1>1, <1>4, <1>8, <1>9, <1>12, <1>14, <1>21

\* What is between a first and a last character.
LEMMA BetweenQuotes ==
  ASSUME NEW U, NEW inner \in Seq(U), "quote" \in U
  PROVE  LET field == <<"quote">> \o inner \o <<"quote">>
         IN /\ field # <<>> /\ field[1] = "quote"
            /\ SubSeq(field, 2, Len(field) - 1) = inner
  <1>1. PICK n \in Nat : n = Len(inner)
    OBVIOUS
  <1> DEFINE head == <<"quote">> \o inner
             field == head \o <<"quote">>
  <1>2. <<"quote">> \in Seq(U) /\ Len(<<"quote">>) = 1 /\ <<"quote">>[1] = "quote"
    OBVIOUS
  <1>9. \A s, t \in Seq(U) : s \o t \in Seq(U)
    OBVIOUS
  <1>3. head \in Seq(U) /\ Joined(head, <<"quote">>, inner, 1, n)
    <2>1. head \in Seq(U)
      BY <1>2, <1>9
    <2>2. Joined(head, <<"quote">>, inner, 1, n)
      BY <1>1, <1>2, JoinedPlaces
    <2> QED
      BY <2>1, <2>2
  <1>4. Len(head) = 1 + n /\ head[1] = "quote" /\ \A i \in 1..n : head[1 + i] = inner[i]
    BY <1>2, <1>3 DEF Joined
  <1> HIDE DEF head
  <1>5. field \in Seq(U) /\ Joined(field, head, <<"quote">>, 1 + n, 1)
    <2>1. field \in Seq(U)
      BY <1>2, <1>3, <1>9
    <2>2. 1 + n \in Nat
      OBVIOUS
    <2>3. Joined(field, head, <<"quote">>, 1 + n, 1)
      BY <1>2, <1>3, <1>4, <2>2, JoinedPlaces
    <2> QED
      BY <2>1, <2>3
  <1>6. Len(field) = 2 + n /\ \A i \in 1..(1 + n) : field[i] = head[i]
    BY <1>5 DEF Joined
  <1> HIDE DEF field
  <1>7. SubSeq(field, 2, 1 + n) = inner
    <2> DEFINE part == SubSeq(field, 2, 1 + n)
    <2>1. 2 \in 1..(Len(field) + 1) /\ 1 + n \in (2 - 1)..Len(field)
      BY <1>6
    <2>2. /\ part \in Seq(U) /\ Len(part) = n
          /\ \A i \in 1..n : part[i] = field[2 + i - 1]
      BY <1>5, <2>1, SubSeqProperties
    <2>3. \A i \in 1..n : 2 + i - 1 = 1 + i /\ 1 + i \in 1..(1 + n)
      OBVIOUS
    <2>4. \A i \in 1..n : part[i] = inner[i]
      BY <1>4, <1>6, <2>2, <2>3
    <2> HIDE DEF part
    <2>5. part = inner
      BY <1>1, <2>2, <2>4, SeqEqual
    <2> QED
      BY <2>5 DEF part
  <1>8. field # <<>> /\ field[1] = "quote" /\ Len(field) - 1 = 1 + n
    BY <1>4, <1>6
  <1> QED
    BY <1>7, <1>8 DEF field, head

LEMMA FieldIsRead ==
  ASSUME NEW T, NEW chars \in Seq(T)
  PROVE  FieldRead(CsvField(chars)) = chars
  <1>1. CASE NeedsQuotes(chars)
    <2>1. PICK U : U = T \cup {"quote"}
      OBVIOUS
    <2>2. PICK inner \in Seq(U) : inner = FlattenSeq(Doubled(chars))
      BY <2>1, DoubledIsRead
    <2>3. Kept(inner, ReadChosen(inner)) = chars
      BY <2>2, DoubledIsRead
    <2>4. CsvField(chars) = <<"quote">> \o inner \o <<"quote">>
      BY <1>1, <2>2 DEF CsvField, Doubled
    <2>5. PICK field : field = <<"quote">> \o inner \o <<"quote">>
      OBVIOUS
    <2>6. field # <<>> /\ field[1] = "quote" /\ SubSeq(field, 2, Len(field) - 1) = inner
      BY <2>1, <2>5, BetweenQuotes
    <2>7. FieldRead(field) = IF field = <<>> \/ field[1] # "quote" THEN field
                             ELSE Kept(SubSeq(field, 2, Len(field) - 1),
                                       ReadChosen(SubSeq(field, 2, Len(field) - 1)))
      BY DEF FieldRead, ReadChosen, Quotes
    <2> QED
      BY <2>3, <2>4, <2>5, <2>6, <2>7, Zenon
  <1>2. CASE ~ NeedsQuotes(chars)
    <2>1. CsvField(chars) = chars
      BY <1>2 DEF CsvField
    <2>2. chars = <<>> \/ 1 \in DOMAIN chars
      OBVIOUS
    <2>3. chars = <<>> \/ chars[1] # "quote"
      BY <1>2, <2>2 DEF NeedsQuotes
    <2> QED
      BY <2>1, <2>3 DEF FieldRead
  <1> QED
    BY <1>1, <1>2

----------------------------------------------------------------------------
(* Part 5: a whole matrix and its columns.                                 *)

\* What the contract's schema says of solved data that were read.
SolvedOK(solved) ==
  /\ solved.frequencies \in Seq(Number)
  /\ IsFiniteSet(DOMAIN solved.s_parameters)
  /\ \A key \in DOMAIN solved.s_parameters :
       Canonical(key) => {key.row, key.column} \subseteq Nat

\* A bounded set of naturals has a greatest member.
LEMMA GreatestOfNaturals ==
  ASSUME NEW S \in SUBSET Nat, S # {}, NEW b \in Nat, \A x \in S : x <= b
  PROVE  Max(S) \in S /\ \A x \in S : x <= Max(S)
  <1> DEFINE bounds == {y \in Nat : \A x \in S : x <= y}
  <1>1. Min(bounds) \in bounds /\ \A y \in bounds : Min(bounds) <= y
    BY LeastOfNaturals
  <1>2. PICK m \in Nat : /\ \A x \in S : x <= m
                         /\ \A y \in Nat : (\A x \in S : x <= y) => m <= y
    BY <1>1
  <1>3. m \in S
    <2> SUFFICES ASSUME m \notin S PROVE FALSE
      OBVIOUS
    <2>1. \A x \in S : x \in Nat /\ x <= m /\ x # m
      BY <1>2
    <2>2. m # 0
      <3>1. PICK x : x \in S
        OBVIOUS
      <3>2. x \in Nat /\ x <= m /\ x # m
        BY <2>1, <3>1
      <3> QED
        BY <3>2
    <2>3. m - 1 \in Nat /\ \A x \in S : x <= m - 1
      BY <2>1, <2>2
    <2>4. m <= m - 1
      BY <1>2, <2>3
    <2> QED
      BY <2>4
  <1>4. \E x \in S : \A y \in S : x >= y
    BY <1>2, <1>3
  <1>5. Max(S) \in S /\ \A y \in S : Max(S) >= y
    BY <1>4 DEF Max
  <1> QED
    BY <1>5

\* Finitely many keys stay within some number of ports.
LEMMA KeysAreBounded ==
  ASSUME NEW keys, IsFiniteSet(keys),
         \A key \in keys : key.row \in Nat /\ key.column \in Nat
  PROVE  \E b \in Nat : \A key \in keys : key.row <= b /\ key.column <= b
  <1> DEFINE Within(F) == \E b \in Nat : \A key \in F : key.row <= b /\ key.column <= b
             S == {n \in Nat : \A F \in SUBSET keys : Cardinality(F) = n => Within(F)}
  <1>1. 0 \in S
    <2> SUFFICES ASSUME NEW F \in SUBSET keys, Cardinality(F) = 0 PROVE Within(F)
      OBVIOUS
    <2>1. IsFiniteSet(F)
      BY FS_Subset
    <2>2. F = {}
      BY <2>1, FS_EmptySet
    <2>3. 0 \in Nat
      OBVIOUS
    <2> QED
      BY <2>2, <2>3
  <1>2. ASSUME NEW n \in Nat, n \in S PROVE n + 1 \in S
    <2> SUFFICES ASSUME NEW F \in SUBSET keys, Cardinality(F) = n + 1 PROVE Within(F)
      OBVIOUS
    <2>1. IsFiniteSet(F)
      BY FS_Subset
    <2>2. PICK last : last \in F
      BY <2>1, FS_EmptySet
    <2>3. Cardinality(F \ {last}) = n
      <3>1. Cardinality(F \ {last}) = (n + 1) - 1
        BY <2>1, <2>2, FS_RemoveElement
      <3> QED
        BY <3>1
    <2>4. PICK b \in Nat : \A key \in F \ {last} : key.row <= b /\ key.column <= b
      BY <1>2, <2>3
    <2>5. PICK r \in Nat : r = last.row
      BY <2>2
    <2>6. PICK c \in Nat : c = last.column
      BY <2>2
    <2>7. b + r + c \in Nat /\ last.row <= b + r + c /\ last.column <= b + r + c
      BY <2>5, <2>6
    <2>8. ASSUME NEW key \in F PROVE key.row <= b + r + c /\ key.column <= b + r + c
      <3>1. CASE key = last
        BY <2>7, <3>1
      <3>2. CASE key # last
        <4>1. key.row \in Nat /\ key.column \in Nat /\ key.row <= b /\ key.column <= b
          BY <2>4, <3>2
        <4> QED
          BY <4>1
      <3> QED
        BY <3>1, <3>2
    <2> QED
      BY <2>7, <2>8
  <1> HIDE DEF S
  <1>3. Cardinality(keys) \in Nat
    BY FS_CardinalityType
  <1>4. Cardinality(keys) \in S
    BY <1>1, <1>2, <1>3, NatSetInduction
  <1>5. Within(keys)
    BY <1>4 DEF S
  <1> QED
    BY <1>5

\* The columns of the table are every place of the matrix.
LEMMA ColumnsAreThePlaces ==
  ASSUME NEW ports \in Nat \ {0}
  PROVE  /\ DOMAIN RowMajor(ports) = 1..(ports * ports)
         /\ ToSet(RowMajor(ports)) = (1..ports) \X (1..ports)
  <1>1. DOMAIN RowMajor(ports) = 1..(ports * ports)
    BY DEF RowMajor
  <1>2. ASSUME NEW i \in 1..(ports * ports)
        PROVE  RowMajor(ports)[i] \in (1..ports) \X (1..ports)
    <2>1. RowMajor(ports)[i] = <<(i - 1) \div ports + 1, ((i - 1) % ports) + 1>>
      BY DEF RowMajor
    <2>2. (i - 1) \div ports + 1 \in 1..ports /\ ((i - 1) % ports) + 1 \in 1..ports
      BY RowAndColumn
    <2> QED
      BY <2>1, <2>2
  <1>3. ASSUME NEW row \in 1..ports, NEW column \in 1..ports
        PROVE  \E i \in 1..(ports * ports) : RowMajor(ports)[i] = <<row, column>>
    <2>1. PICK i : i = (row - 1) * ports + column
      OBVIOUS
    <2>2. i \in 1..(ports * ports)
      BY <2>1, PlaceInGrid
    <2>3. (i - 1) \div ports = row - 1 /\ (i - 1) % ports = column - 1
      BY <2>1, PlaceHasRowAndColumn
    <2>4. RowMajor(ports)[i] = <<(i - 1) \div ports + 1, ((i - 1) % ports) + 1>>
      BY <2>2 DEF RowMajor
    <2>5. (row - 1) + 1 = row /\ (column - 1) + 1 = column
      OBVIOUS
    <2> QED
      BY <2>2, <2>3, <2>4, <2>5
  <1>4. ToSet(RowMajor(ports)) = {RowMajor(ports)[i] : i \in 1..(ports * ports)}
    BY <1>1 DEF ToSet
  <1>5. \A place \in (1..ports) \X (1..ports) :
          \E row \in 1..ports, column \in 1..ports : place = <<row, column>>
    OBVIOUS
  <1>6. ToSet(RowMajor(ports)) \subseteq (1..ports) \X (1..ports)
    BY <1>2, <1>4
  <1>7. ASSUME NEW place \in (1..ports) \X (1..ports)
        PROVE  place \in ToSet(RowMajor(ports))
    <2>1. PICK row \in 1..ports, column \in 1..ports : place = <<row, column>>
      BY <1>5
    <2>2. PICK i \in 1..(ports * ports) : RowMajor(ports)[i] = place
      BY <1>3, <2>1
    <2> QED
      BY <1>4, <2>2
  <1> QED
    BY <1>1, <1>6, <1>7

\* The number of ports is the greatest row there is.
LEMMA PortsAreTheRows ==
  ASSUME NEW solved, SolvedOK(solved), Exportable(solved)
  PROVE  /\ PortCount(solved) \in Nat \ {0}
         /\ PortCount(solved) = Max({key.row : key \in DOMAIN solved.s_parameters})
  <1> DEFINE keys == DOMAIN solved.s_parameters
             rows == {key.row : key \in keys}
             columns == {key.column : key \in keys}
  <1>1. PICK ports : ports = PortCount(solved)
    OBVIOUS
  <1>2. ports = Max(rows \cup columns)
    BY <1>1 DEF PortCount
  <1>3. /\ keys # {} /\ IsFiniteSet(keys)
        /\ \A key \in keys : /\ key.row \in Nat \ {0}
                             /\ key.column \in Nat \ {0}
    BY DEF Exportable, MatrixIsWhole, SolvedOK
  <1>4. \A place \in ToSet(RowMajor(ports)) : \E key \in keys : Position(key) = place
    BY <1>1 DEF Exportable, MatrixIsWhole
  <1> HIDE DEF keys
  <1>5. PICK b \in Nat : \A key \in keys : key.row <= b /\ key.column <= b
    BY <1>3, KeysAreBounded
  <1>6. /\ rows \cup columns \in SUBSET (Nat \ {0}) /\ rows # {}
        /\ \A x \in rows \cup columns : x <= b
    BY <1>3, <1>5
  <1>7. rows \subseteq rows \cup columns
    OBVIOUS
  <1> HIDE DEF rows, columns
  <1>8. ports \in rows \cup columns /\ \A x \in rows \cup columns : x <= ports
    BY <1>2, <1>6, <1>7, GreatestOfNaturals
  <1>9. ports \in Nat \ {0}
    BY <1>6, <1>8
  <1>10. <<ports, ports>> \in ToSet(RowMajor(ports))
    <2>1. ports \in 1..ports
      BY <1>9
    <2> QED
      BY <1>9, <2>1, ColumnsAreThePlaces
  <1>11. PICK key \in keys : Position(key) = <<ports, ports>>
    BY <1>4, <1>10
  <1>12. ports \in rows
    BY <1>11 DEF Position, rows
  <1>13. /\ rows \in SUBSET Nat /\ rows # {} /\ \A x \in rows : x <= b
         /\ \A x \in rows : x <= ports
    BY <1>6, <1>7, <1>8
  <1>14. Max(rows) \in rows /\ \A x \in rows : x <= Max(rows)
    BY <1>13, GreatestOfNaturals
  <1>15. Max(rows) = ports
    <2>1. Max(rows) \in Nat /\ Max(rows) <= ports /\ ports <= Max(rows)
      BY <1>12, <1>13, <1>14
    <2> QED
      BY <1>9, <2>1
  <1> QED
    BY <1>1, <1>9, <1>15 DEF rows, keys

----------------------------------------------------------------------------
(* Part 6: the files.                                                      *)

LEMMA CleanIsClean ==
  ASSUME NEW T, NEW free \in Seq(T)
  PROVE  /\ Clean(free) \in Seq(T \cup {"space"})
         /\ ToSet(Clean(free)) \cap Control = {}
  <1>1. PICK n \in Nat : n = Len(free)
    OBVIOUS
  <1>2. DOMAIN free = 1..n /\ \A i \in 1..n : free[i] \in T
    BY <1>1
  <1>3. ASSUME NEW i \in 1..n
        PROVE  Clean(free)[i] \in T \cup {"space"} /\ Clean(free)[i] \notin Control
    <2>1. Clean(free)[i] = IF free[i] \in Control THEN "space" ELSE free[i]
      BY <1>2 DEF Clean
    <2>2. "space" \notin Control
      BY DEF Control
    <2> QED
      BY <1>2, <2>1, <2>2
  <1>4. Clean(free) = [i \in 1..n |-> Clean(free)[i]]
    BY <1>2 DEF Clean
  <1>5. Clean(free) \in Seq(T \cup {"space"}) /\ DOMAIN Clean(free) = 1..n
    BY <1>3, <1>4, SequenceOf
  <1>6. ToSet(Clean(free)) \cap Control = {}
    BY <1>3, <1>5 DEF ToSet
  <1> QED
    BY <1>5, <1>6

\* What a reader has of the Touchstone file.
TouchstoneReadsBack(lines, solved, ports) ==
  /\ Len(PointStarts(lines)) = Len(solved.frequencies)
  /\ \A k \in DOMAIN solved.frequencies :
       /\ lines[PointStarts(lines)[k]].frequency = solved.frequencies[k]
       /\ Len(PairsOfPoint(lines, k)) = ports * ports
       /\ \A i \in 1..(ports * ports) :
            PairsOfPoint(lines, k)[i] = SampleAt(solved, PlaceOfPair(ports, i), k)

\* No line has too many pairs, or a line break in its text.
LineFits(line) ==
  /\ Len(line.pairs) <= MaxPairsPerLine
  /\ ToSet(line.text) \cap Control = {}

TouchstoneFits(file) == \A i \in DOMAIN file : LineFits(file[i])

\* The data lines of whole solved data are read back.
LEMMA DataReadBack ==
  ASSUME NEW solved, NEW ports \in Nat \ {0}, NEW n \in Nat, NEW m \in Nat \ {0}, NEW data,
         ArePoints(data, solved, ports, n, m), SweptTo(solved, n)
  PROVE  m = LinesOfPoint(ports) /\ Len(data) = n * m
           /\ Len(solved.frequencies) = n /\ DOMAIN solved.frequencies = 1..n
           => TouchstoneReadsBack(data, solved, ports)
  <1>0. SUFFICES ASSUME m = LinesOfPoint(ports), Len(data) = n * m,
                        Len(solved.frequencies) = n, DOMAIN solved.frequencies = 1..n
                 PROVE  TouchstoneReadsBack(data, solved, ports)
    OBVIOUS
  <1>1. StartsAre(PointStarts(data), data, solved, n, m)
    BY PointsStart
  <1>2. Len(PointStarts(data)) = Len(solved.frequencies)
    BY <1>0, <1>1 DEF StartsAre
  <1>3. ASSUME NEW k \in 1..n
        PROVE  /\ data[PointStarts(data)[k]].frequency = solved.frequencies[k]
               /\ Len(PairsOfPoint(data, k)) = ports * ports
               /\ \A i \in 1..(ports * ports) :
                    PairsOfPoint(data, k)[i] = SampleAt(solved, PlaceOfPair(ports, i), k)
    <2>1. data[PointStarts(data)[k]].frequency = solved.frequencies[k]
      BY <1>1 DEF StartsAre
    <2>2. PairsOfPoint(data, k) = FlattenSeq(PointChunks(solved, ports, k))
      BY <1>0, PairsAreThePoints
    <2>3. CarriesPoint(PointChunks(solved, ports, k), solved, ports, k)
      BY ChunksCarryThePoint
    <2>4. PICK pairs : pairs = FlattenSeq(PointChunks(solved, ports, k))
      OBVIOUS
    <2>5. /\ Len(pairs) = ports * ports
          /\ \A i \in 1..(ports * ports) :
               pairs[i] = SampleAt(solved, PlaceOfPair(ports, i), k)
      BY <2>3, <2>4 DEF CarriesPoint
    <2> QED
      BY <2>1, <2>2, <2>4, <2>5
  <1> QED
    BY <1>0, <1>2, <1>3 DEF TouchstoneReadsBack

\* Such lines fit.
LEMMA DataFits ==
  ASSUME NEW solved, NEW ports \in Nat \ {0}, NEW n \in Nat, NEW m \in Nat \ {0}, NEW data,
         ArePoints(data, solved, ports, n, m)
  PROVE  m = LinesOfPoint(ports)
           => \A i \in DOMAIN data : data[i].mark = "data" /\ LineFits(data[i])
  <1>0. SUFFICES ASSUME m = LinesOfPoint(ports), NEW i \in DOMAIN data
                 PROVE  data[i].mark = "data" /\ LineFits(data[i])
    OBVIOUS
  <1>1. i \in 1..(n * m)
    BY DEF ArePoints
  <1>2. PICK k : k = (i - 1) \div m + 1
    OBVIOUS
  <1>3. PICK x : x = ((i - 1) % m) + 1
    OBVIOUS
  <1>4. k \in 1..n /\ x \in 1..m /\ i = (k - 1) * m + x
    <2>1. /\ (i - 1) \div m \in Nat /\ (i - 1) \div m + 1 \in 1..n
          /\ ((i - 1) % m) + 1 \in 1..m
          /\ i = ((i - 1) \div m) * m + (((i - 1) % m) + 1)
      BY <1>1, RowAndColumn
    <2>2. k - 1 = (i - 1) \div m
      BY <1>2, <2>1
    <2> QED
      BY <1>2, <1>3, <2>1, <2>2, Zenon
  <1>5. data[i] = PointLine(solved, ports, k, x)
    BY <1>4 DEF ArePoints
  <1>6. PICK chunks : chunks = PointChunks(solved, ports, k)
    OBVIOUS
  <1>7. /\ DOMAIN chunks = 1..m
        /\ CarriesPoint(chunks, solved, ports, k)
    BY <1>0, <1>6, ChunksCarryThePoint
  <1>8. Len(chunks[x]) <= MaxPairsPerLine
    BY <1>4, <1>7 DEF CarriesPoint
  <1>9. data[i].mark = "data" /\ data[i].text = <<>> /\ data[i].pairs = chunks[x]
    BY <1>5, <1>6, FieldsOfLine
  <1>10. ToSet(<<>>) \cap Control = {}
    BY DEF ToSet
  <1> QED
    BY <1>8, <1>9, <1>10 DEF LineFits

LEMMA HeaderFits ==
  ASSUME NEW mark, NEW free, ToSet(free) \cap Control = {}
  PROVE  HeaderLine(mark, free).mark = mark /\ LineFits(HeaderLine(mark, free))
  <1>1. /\ HeaderLine(mark, free).mark = mark
        /\ HeaderLine(mark, free).text = free
        /\ HeaderLine(mark, free).pairs = <<>>
    BY DEF HeaderLine
  <1>2. Len(<<>>) <= MaxPairsPerLine
    BY DEF MaxPairsPerLine
  <1> QED
    BY <1>1, <1>2 DEF LineFits

\* The whole sweep of solved data that can be exported.
LEMMA SweepIsWhole ==
  ASSUME NEW solved, SolvedOK(solved), Exportable(solved)
  PROVE  \E n \in Nat \ {0} : /\ Len(solved.frequencies) = n
                              /\ DOMAIN solved.frequencies = 1..n
                              /\ SweptTo(solved, n)
  <1>1. PICK s : s = solved.frequencies
    OBVIOUS
  <1>2. s \in Seq(Number) /\ s # <<>>
    BY <1>1 DEF SolvedOK, Exportable, SweepIsExportable
  <1>3. PICK n \in Nat : n = Len(s)
    BY <1>2
  <1>4. n # 0 /\ DOMAIN s = 1..n /\ \A k \in 1..n : s[k] \in Number
    BY <1>2, <1>3
  <1>5. None \notin Number
    BY NoneAssumption DEF Number
  <1>6. SweptTo(solved, n)
    BY <1>1, <1>4, <1>5 DEF SweptTo
  <1> QED
    BY <1>1, <1>3, <1>4, <1>6

LEMMA TouchstoneIsRead ==
  ASSUME NEW solved, SolvedOK(solved), Exportable(solved), NEW T, NEW free \in Seq(T)
  PROVE  LET file == TouchstoneContent(solved, free)
         IN /\ file # <<>>
            /\ TouchstoneReadsBack(DataLines(file), solved, PortCount(solved))
            /\ TouchstoneFits(file)
  <1>1. PICK ports \in Nat \ {0} : ports = PortCount(solved)
    BY PortsAreTheRows
  <1>2. PICK n \in Nat \ {0} : /\ Len(solved.frequencies) = n
                               /\ DOMAIN solved.frequencies = 1..n
                               /\ SweptTo(solved, n)
    BY SweepIsWhole
  <1>3. PICK m \in Nat \ {0} : m = LinesOfPoint(ports)
    BY ShapeOfPoint
  <1>4. PICK data : data = FlattenSeq(PointBlocks(solved, ports))
    OBVIOUS
  <1>5. /\ data \in Seq(BlockLines(solved, ports, n, m))
        /\ ArePoints(data, solved, ports, n, m)
    BY <1>2, <1>3, <1>4, BlocksAreAGrid DEF ArePoints
  <1>6. Len(data) = n * m
    <2>1. n * m \in Nat
      OBVIOUS
    <2>2. DOMAIN data = 1..(n * m)
      BY <1>5 DEF ArePoints
    <2> QED
      BY <1>5, <2>1, <2>2
  <1>7. TouchstoneReadsBack(data, solved, ports)
    BY <1>2, <1>3, <1>5, <1>6, DataReadBack
  <1>8. \A i \in DOMAIN data : data[i].mark = "data" /\ LineFits(data[i])
    BY <1>3, <1>5, DataFits
  <1>9. PICK first : first = HeaderLine("comment", Clean(free))
    OBVIOUS
  <1>10. PICK second : second = HeaderLine("option", <<>>)
    OBVIOUS
  <1>11. /\ first.mark = "comment" /\ LineFits(first)
         /\ second.mark = "option" /\ LineFits(second)
    <2>1. ToSet(Clean(free)) \cap Control = {}
      BY CleanIsClean
    <2>2. ToSet(<<>>) \cap Control = {}
      BY DEF ToSet
    <2> QED
      BY <1>9, <1>10, <2>1, <2>2, HeaderFits
  <1>12. PICK file : file = <<first>> \o <<second>> \o data
    OBVIOUS
  <1>13. TouchstoneContent(solved, free) = file
    BY <1>1, <1>4, <1>9, <1>10, <1>12
    DEF TouchstoneContent, ProvenanceLines, PointBlocks
  <1>14. PICK U : U = BlockLines(solved, ports, n, m) \cup {first, second}
    OBVIOUS
  <1>15. data \in Seq(U) /\ first \in U /\ second \in U
    BY <1>5, <1>14
  <1>16. /\ DataLines(file) = data
         /\ file # <<>>
         /\ \A i \in DOMAIN file :
              file[i] \in {first, second} \/ \E j \in DOMAIN data : file[i] = data[j]
    <2>1. first.mark # "data" /\ second.mark # "data"
      BY <1>11
    <2>2. \A i \in DOMAIN data : data[i].mark = "data"
      BY <1>8
    <2>3. HeaderThenData(<<first>> \o <<second>> \o data, first, second, data)
      BY <1>15, <2>1, <2>2, DataAfterHeader
    <2>4. HeaderThenData(file, first, second, data)
      BY <1>12, <2>3
    <2> QED
      BY <2>4 DEF HeaderThenData
  <1>17. TouchstoneFits(file)
    BY <1>8, <1>11, <1>16 DEF TouchstoneFits
  <1> QED
    BY <1>1, <1>7, <1>13, <1>16, <1>17

\* What a reader has of the table.
TableReadsBack(table, solved, ports, free) ==
  \A k \in DOMAIN solved.frequencies :
    /\ table[k].frequency = solved.frequencies[k]
    /\ \A i \in 1..(ports * ports) :
         table[k].samples[i] = SampleAt(solved, table[k].columns[i], k)
    /\ ToSet(table[k].columns) = (1..ports) \X (1..ports)
    /\ FieldRead(table[k].provenance) = free

LEMMA EntryIsTheSample ==
  ASSUME NEW solved, NEW place, NEW point
  PROVE  Entry(solved, place, point) = SampleAt(solved, place, point)
  BY DEF Entry, GridKey, Position, SampleAt

LEMMA TableIsRead ==
  ASSUME NEW solved, SolvedOK(solved), Exportable(solved), NEW T, NEW free \in Seq(T)
  PROVE  LET table == CsvContent(solved, free)
         IN /\ table # <<>>
            /\ TableReadsBack(table, solved, PortCount(solved), Clean(free))
  <1>1. PICK ports \in Nat \ {0} : ports = PortCount(solved)
    BY PortsAreTheRows
  <1>2. PICK n \in Nat \ {0} : DOMAIN solved.frequencies = 1..n
    BY SweepIsWhole
  <1>3. PICK table : table = CsvContent(solved, free)
    OBVIOUS
  <1>4. PICK columns : columns = RowMajor(ports)
    OBVIOUS
  <1>5. /\ DOMAIN columns = 1..(ports * ports)
        /\ ToSet(columns) = (1..ports) \X (1..ports)
    BY <1>4, ColumnsAreThePlaces
  <1>6. table = [point \in 1..n |->
                   [frequency |-> solved.frequencies[point],
                    columns |-> columns,
                    samples |-> [i \in 1..(ports * ports) |->
                                   Entry(solved, columns[i], point)],
                    provenance |-> CsvField(Clean(free))]]
    BY <1>1, <1>2, <1>3, <1>4, <1>5 DEF CsvContent
  <1>7. table # <<>>
    <2>1. 1 \in DOMAIN table
      BY <1>6
    <2> QED
      BY <2>1
  <1>8. FieldRead(CsvField(Clean(free))) = Clean(free)
    BY CleanIsClean, FieldIsRead
  <1>9. ASSUME NEW k \in 1..n
        PROVE  /\ table[k].frequency = solved.frequencies[k]
               /\ table[k].columns = columns
               /\ \A i \in 1..(ports * ports) :
                    table[k].samples[i] = Entry(solved, columns[i], k)
               /\ table[k].provenance = CsvField(Clean(free))
    BY <1>6
  <1>10. ASSUME NEW k \in 1..n, NEW i \in 1..(ports * ports)
         PROVE  table[k].samples[i] = SampleAt(solved, table[k].columns[i], k)
    BY <1>9, EntryIsTheSample
  <1>11. TableReadsBack(table, solved, ports, Clean(free))
    BY <1>2, <1>5, <1>8, <1>9, <1>10 DEF TableReadsBack
  <1> QED
    BY <1>1, <1>3, <1>7, <1>11

----------------------------------------------------------------------------
(* Part 7: the run.                                                        *)

\* What was exported is the content of the snapshot's data.
ExportsAgree ==
  phase = "exported" =>
    /\ IsRead(snapshot.solved_data)
    /\ touchstone = TouchstoneContent(snapshot.solved_data, request.provenance)
    /\ csv = CsvContent(snapshot.solved_data, request.provenance)

LEMMA ExportsStay == Spec => []ExportsAgree
  <1>1. Init => ExportsAgree
    BY DEF Init, ExportsAgree
  <1>2. ExportsAgree /\ [Next]_vars => ExportsAgree'
    <2> SUFFICES ASSUME ExportsAgree, [Next]_vars PROVE ExportsAgree'
      OBVIOUS
    <2> USE DEF ExportsAgree, Move, machineVars, designVars
    <2>1. CASE Start
      BY <2>1 DEF Start
    <2>2. CASE Report
      BY <2>2 DEF Report
    <2>3. CASE Bundle
      BY <2>3 DEF Bundle
    <2>4. CASE Assemble
      BY <2>4 DEF Assemble
    <2>5. CASE Judge
      BY <2>5 DEF Judge
    <2>6. CASE Compute
      BY <2>6 DEF Compute
    <2>7. CASE Merge
      BY <2>7 DEF Merge
    <2>8. CASE Render
      BY <2>8 DEF Render
    <2>9. CASE Export
      BY <2>9 DEF Export
    <2>10. CASE UNCHANGED vars
      BY <2>10 DEF vars
    <2> QED
      BY <2>1, <2>2, <2>3, <2>4, <2>5, <2>6, <2>7, <2>8, <2>9, <2>10 DEF Next
  <1> QED
    BY <1>1, <1>2, PTL DEF Spec

\* The data exported are of the shape the contract's schema gives them.
LEMMA ExportedAreOK ==
  ASSUME PipelineInv, ExportsAgree, phase = "exported"
  PROVE  SolvedOK(snapshot.solved_data) /\ request.provenance \in Seq(ToSet(request.provenance))
  <1>1. /\ request \in Requests /\ snapshot = AssembleSnapshot(request.held, "snap")
        /\ snapshot.arm = "DesignSnapshot"
    BY DEF PipelineInv, ResultsAgree, Judged
  <1>2. snapshot.solved_data = request.held.solved_data
    BY <1>1, SnapshotHoldsThePieces
  <1>3. IsRead(request.held.solved_data)
    BY <1>2 DEF ExportsAgree
  <1>4. RequestOK(request)
    BY <1>1, RequestsAssumption
  <1>5. request.provenance \in Seq(ToSet(request.provenance))
    BY <1>4 DEF RequestOK
  <1>6. SolvedOK(request.held.solved_data)
    BY <1>3, <1>4 DEF RequestOK, SolvedOK
  <1> QED
    BY <1>2, <1>5, <1>6

LEMMA FilesReadBack ==
  ASSUME PipelineInv, ExportsAgree, phase = "exported"
  PROVE  ExportReadsBack
  <1>1. PICK solved : solved = snapshot.solved_data
    OBVIOUS
  <1>2. PICK free : free = request.provenance
    OBVIOUS
  <1>3. SolvedOK(solved) /\ free \in Seq(ToSet(free))
    BY <1>1, <1>2, ExportedAreOK
  <1>4. touchstone = TouchstoneContent(solved, free) /\ csv = CsvContent(solved, free)
    BY <1>1, <1>2 DEF ExportsAgree
  <1>5. CASE ~ Exportable(solved)
    <2>1. touchstone = ExportContentError /\ csv = ExportContentError
      BY <1>4, <1>5 DEF TouchstoneContent, CsvContent
    <2> QED
      BY <2>1 DEF ExportReadsBack
  <1>6. CASE Exportable(solved)
    <2>1. PICK ports : ports = PortCount(solved)
      OBVIOUS
    <2>2. ports = Max({k.row : k \in DOMAIN solved.s_parameters})
      BY <1>3, <1>6, <2>1, PortsAreTheRows
    <2>3. /\ touchstone # <<>>
          /\ TouchstoneReadsBack(DataLines(touchstone), solved, ports)
          /\ TouchstoneFits(touchstone)
      BY <1>3, <1>4, <1>6, <2>1, TouchstoneIsRead
    <2>4. csv # <<>> /\ TableReadsBack(csv, solved, ports, Clean(free))
      BY <1>3, <1>4, <1>6, <2>1, TableIsRead
    <2>5. PICK lines : lines = DataLines(touchstone)
      OBVIOUS
    <2>6. TouchstoneReadsBack(lines, solved, ports)
      BY <2>3, <2>5
    <2>7. PICK count : count = ports * ports
      OBVIOUS
    <2>8. /\ Len(PointStarts(lines)) = Len(solved.frequencies)
          /\ \A k \in DOMAIN solved.frequencies :
               /\ lines[PointStarts(lines)[k]].frequency = solved.frequencies[k]
               /\ Len(PairsOfPoint(lines, k)) = ports * ports
               /\ \A i \in 1..(ports * ports) :
                    /\ PairsOfPoint(lines, k)[i]
                         = SampleAt(solved, PlaceOfPair(ports, i), k)
                    /\ csv[k].samples[i] = SampleAt(solved, csv[k].columns[i], k)
               /\ csv[k].frequency = solved.frequencies[k]
               /\ ToSet(csv[k].columns) = (1..ports) \X (1..ports)
               /\ FieldRead(csv[k].provenance) = Clean(free)
      BY <2>4, <2>6, Zenon DEF TouchstoneReadsBack, TableReadsBack
    <2>9. \A i \in DOMAIN touchstone :
            /\ Len(touchstone[i].pairs) <= MaxPairsPerLine
            /\ ToSet(touchstone[i].text) \cap Control = {}
      BY <2>3 DEF TouchstoneFits, LineFits
    <2>10. touchstone # ExportContentError /\ csv # ExportContentError
      BY <2>3, <2>4 DEF ExportContentError
    <2> QED
      BY <1>1, <1>2, <2>2, <2>5, <2>8, <2>9, <2>10, Zenon DEF ExportReadsBack
  <1> QED
    BY <1>5, <1>6

\* Either neither file is written, or a reader of each has the whole matrix at
\* every frequency of the sweep, whatever the number of ports, the spelling of
\* the keys, the length of the sweep and the text of the provenance
\* (metrics/export.py).
THEOREM ExportsReadBack == Spec => []ExportReadsBack
  <1>1. PipelineInv /\ ExportsAgree => ExportReadsBack
    BY FilesReadBack DEF ExportReadsBack
  <1> QED
    BY <1>1, ResultsAreTheirFunctions, ExportsStay, PTL
=============================================================================
