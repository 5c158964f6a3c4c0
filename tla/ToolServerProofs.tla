--------------------------- MODULE ToolServerProofs -------------------------
(***************************************************************************)
(* What an answered read-out is stamped with is what was read, although    *)
(* its stamp is taken by a second dispatch; every one is answered, with    *)
(* each section asked for in its place; and the records of a call are      *)
(* together in the log: for every number of clients and of sections and    *)
(* every order of the calls, because the lock is kept from a tool's first  *)
(* step to its answer.                                                     *)
(***************************************************************************)
EXTENDS ToolServer, FiniteSetTheorems, NaturalsInduction, WellFoundedInduction, TLAPS

-----------------------------------------------------------------------------
(* Part 1: the tools.                                                      *)

\* The shapes of a script.
LEMMA ScriptShape ==
  ASSUME NEW t \in Tool
  PROVE  \/ t = "preflight_environment" /\ Script[t] = <<"preflight">>
         \/ /\ t \notin Readers \union {"preflight_environment"}
            /\ \E step \in {"attach", "status", "intent", "history"} :
                    Script[t] = <<step, "record">>
         \/ /\ t \notin Readers \union {"preflight_environment"}
            /\ \E step \in {"list", "select"} : Script[t] = <<"verify", step, "record">>
         \/ /\ t \in Readers
            /\ Script[t] = <<"verify", "read", "record", "status", "record", "stamp">>
         \/ /\ t \notin Readers \union {"preflight_environment"}
            /\ Script[t] = <<"preflight", "history", "record", "write">>
  BY DEF Tool, Script, Readers

\* The two read-outs take the same steps.
LEMMA ReaderScript ==
  ASSUME NEW t \in Readers
  PROVE  /\ t \in Tool
         /\ Script[t] = <<"verify", "read", "record", "status", "record", "stamp">>
         /\ Len(Script[t]) = 6 /\ DOMAIN Script[t] = 1..6
  BY DEF Readers, Tool, Script

\* Every tool has a first step and at most six.
LEMMA ScriptLength ==
  ASSUME NEW t \in Tool
  PROVE  /\ Len(Script[t]) \in 1..6
         /\ DOMAIN Script[t] = 1..Len(Script[t])
  <1>1. ASSUME NEW step, Script[t] = <<step, "record">>
        PROVE  Len(Script[t]) = 2 /\ DOMAIN Script[t] = 1..Len(Script[t])
    BY <1>1
  <1>4. ASSUME NEW step, Script[t] = <<"verify", step, "record">>
        PROVE  Len(Script[t]) = 3 /\ DOMAIN Script[t] = 1..Len(Script[t])
    BY <1>4
  <1>2. CASE Script[t] = <<"preflight">>
    BY <1>2
  <1>3. CASE Script[t] = <<"preflight", "history", "record", "write">>
    BY <1>3
  <1> QED
    BY <1>1, <1>2, <1>3, <1>4, ScriptShape, ReaderScript

\* Only a read-out reads or stamps; a step that does not end its tool has a next
\* one; and the second record is only a read-out's.
LEMMA ScriptSteps ==
  ASSUME NEW t \in Tool, NEW p \in DOMAIN Script[t]
  PROVE  /\ Script[t][p] \in {"read", "stamp"} => t \in Readers
         /\ \/ Script[t][p] \in {"stamp", "write"}
            \/ t = "preflight_environment"
            \/ Script[t][p] = "record" /\ p = Len(Script[t])
            \/ p + 1 \in DOMAIN Script[t]
         /\ Script[t][p] = "record" =>
               \/ p \in {2, 3} /\ \A i \in 1..(p - 1) : Script[t][i] # "record"
               \/ p = 5 /\ t \in Readers
  <1>1. CASE t = "preflight_environment" /\ Script[t] = <<"preflight">>
    BY <1>1
  <1>2. CASE \E step \in {"attach", "status", "intent", "history"} :
               Script[t] = <<step, "record">>
    <2>1. PICK step \in {"attach", "status", "intent", "history"} :
               Script[t] = <<step, "record">>
      BY <1>2
    <2>2. p \in {1, 2}
      BY <2>1
    <2> QED
      BY <2>1, <2>2
  <1>3. CASE \E step \in {"list", "select"} : Script[t] = <<"verify", step, "record">>
    <2>1. PICK step \in {"list", "select"} : Script[t] = <<"verify", step, "record">>
      BY <1>3
    <2>2. p \in {1, 2, 3}
      BY <2>1
    <2> QED
      BY <2>1, <2>2
  <1>4. CASE t \in Readers
    <2>1. p \in {1, 2, 3, 4, 5, 6}
      BY <1>4, ReaderScript
    <2> QED
      BY <1>4, <2>1, ReaderScript
  <1>5. CASE Script[t] = <<"preflight", "history", "record", "write">>
    <2>1. p \in {1, 2, 3, 4}
      BY <1>5
    <2> QED
      BY <1>5, <2>1
  <1> QED
    BY <1>1, <1>2, <1>3, <1>4, <1>5, ScriptShape

\* The records a tool makes in its first p steps.
RecordsIn(t, p) == {i \in 1..p : Script[t][i] = "record"}

LEMMA RecordsOfSteps ==
  ASSUME NEW t \in Tool, NEW p \in DOMAIN Script[t]
  PROVE  /\ Cardinality(RecordsIn(t, 0)) = 0
         /\ Cardinality(RecordsIn(t, p))
              = Cardinality(RecordsIn(t, p - 1)) + (IF Script[t][p] = "record" THEN 1 ELSE 0)
         /\ Cardinality(RecordsIn(t, p - 1)) \in Nat
         /\ Script[t][p] = "record" => Cardinality(RecordsIn(t, p - 1)) \in {0, 1}
  <1>1. p \in Nat \ {0}
    BY ScriptLength
  <1>2. IsFiniteSet(RecordsIn(t, p - 1)) /\ p \notin RecordsIn(t, p - 1)
    <2>1. IsFiniteSet(1..(p - 1)) /\ RecordsIn(t, p - 1) \in SUBSET (1..(p - 1))
      BY <1>1, FS_Interval DEF RecordsIn
    <2> QED
      BY <1>1, <2>1, FS_Subset
  <1>3. RecordsIn(t, p) = RecordsIn(t, p - 1) \union (IF Script[t][p] = "record" THEN {p} ELSE {})
    BY <1>1 DEF RecordsIn
  <1>4. RecordsIn(t, 0) = {}
    BY DEF RecordsIn
  <1>5. ASSUME Script[t][p] = "record"
        PROVE  Cardinality(RecordsIn(t, p - 1)) \in {0, 1}
    <2>1. CASE p = 5 /\ t \in Readers
      <3>1. RecordsIn(t, p - 1) = {3}
        BY <2>1, ReaderScript DEF RecordsIn
      <3> QED
        BY <3>1, FS_Singleton
    <2>2. CASE \A i \in 1..(p - 1) : Script[t][i] # "record"
      <3>1. RecordsIn(t, p - 1) = {}
        BY <2>2 DEF RecordsIn
      <3> QED
        BY <3>1, FS_EmptySet
    <2> QED
      BY <1>5, <2>1, <2>2, ScriptSteps
  <1>6. Cardinality(RecordsIn(t, p - 1)) \in Nat
    BY <1>2, FS_CardinalityType
  <1>7. /\ Script[t][p] = "record" => RecordsIn(t, p) = RecordsIn(t, p - 1) \union {p}
        /\ Script[t][p] # "record" => RecordsIn(t, p) = RecordsIn(t, p - 1)
    BY <1>3
  <1>8. Cardinality(RecordsIn(t, p))
              = Cardinality(RecordsIn(t, p - 1)) + (IF Script[t][p] = "record" THEN 1 ELSE 0)
    BY <1>2, <1>6, <1>7, FS_AddElement
  <1> QED
    BY <1>4, <1>5, <1>6, <1>8, FS_EmptySet

-----------------------------------------------------------------------------
(* Part 2: the session below the tools.                                    *)

SessionTyped ==
    /\ health \in {"DETACHED", "ATTACHED", "SUSPECT", "LOST"}
    /\ DOMAIN selections = SelectionField
    /\ environment \in Process \union {None}
    /\ SessionOK

\* No step of the lifecycle leaves an attached session without an environment.
LEMMA LifecycleStep ==
  ASSUME SessionTyped, [Next]_lifecycleVars
  PROVE  SessionTyped'
  <1>1. {"project", "design"} \subseteq Stage /\ Stage \subseteq SelectionField
        /\ "variation" \notin {"project", "design"}
    BY DEF Stage, SelectionField
  <1>2. ASSUME NEW p \in Process, Attach(p)
        PROVE  SessionTyped'
    BY <1>2, ChainAssumption
    DEF Attach, SessionTyped, SessionOK, NoSelections, SelectionField, Stage
  <1>3. CASE FailToAttach
    BY <1>3 DEF FailToAttach, SessionTyped, SessionOK, NoSelections, SelectionField, Stage
  <1>4. CASE Lose
    BY <1>4 DEF Lose, SessionTyped, SessionOK, NoSelections, SelectionField, Stage
  <1>5. CASE Doubt
    BY <1>5 DEF Doubt, SessionTyped, SessionOK
  <1>6. CASE Recover
    BY <1>1, <1>6 DEF Recover, SessionTyped, SessionOK
  <1>7. ASSUME NEW s \in Stage, NEW v \in ValueOf(s), Select(s, v)
        PROVE  SessionTyped'
    BY <1>1, <1>7 DEF Select, ValueOf, SessionTyped, SessionOK
  <1>8. CASE UNCHANGED lifecycleVars
    BY <1>8 DEF lifecycleVars, SessionTyped, SessionOK
  <1> QED
    BY <1>2, <1>3, <1>4, <1>5, <1>6, <1>7, <1>8 DEF Next

\* A verification opens a dispatch.
LEMMA AfterVerify ==
  ASSUME NEW t \in Tool, NEW p \in DOMAIN Script[t], Script[t][p] = "verify"
  PROVE  Script[t][p + 1] # "record"
  <1>1. p \in 1..6 /\ p \in DOMAIN Script[t]
    BY ScriptLength
  <1>2. CASE \E step \in {"attach", "status", "intent", "history"} :
               Script[t] = <<step, "record">>
    <2>1. PICK step \in {"attach", "status", "intent", "history"} :
               Script[t] = <<step, "record">>
      BY <1>2
    <2> QED
      BY <1>1, <2>1
  <1>3. CASE \E step \in {"list", "select"} : Script[t] = <<"verify", step, "record">>
    <2>1. PICK step \in {"list", "select"} : Script[t] = <<"verify", step, "record">>
      BY <1>3
    <2>2. p = 1
      BY <1>1, <2>1
    <2> QED
      BY <2>1, <2>2
  <1>4. CASE t \in Readers
    <2>1. p \in {1, 2, 3, 4, 5, 6}
      BY <1>1
    <2> QED
      BY <1>4, <2>1, ReaderScript
  <1>5. CASE Script[t] = <<"preflight">> \/ Script[t] = <<"preflight", "history", "record", "write">>
    BY <1>1, <1>5
  <1> QED
    BY <1>2, <1>3, <1>4, <1>5, ScriptShape

-----------------------------------------------------------------------------
(* The pass over the canonical order.                                      *)

\* Induction, of a set in place of a predicate.
LEMMA NatSetInduction ==
  ASSUME NEW S, 0 \in S, \A n \in Nat : n \in S => n + 1 \in S
  PROVE  Nat \subseteq S
  <1> DEFINE T == Nat \ S
  <1> SUFFICES ASSUME T # {} PROVE FALSE
    OBVIOUS
  <1>1. PICK x \in T : \A y \in T : ~(<<y, x>> \in OpToRel(<, Nat))
    <2>1. T \subseteq Nat
      OBVIOUS
    <2> HIDE DEF T
    <2> QED
      BY <2>1, WFMin, NatLessThanWellFounded
  <1>2. \A y \in T : ~(y < x)
    BY <1>1 DEF OpToRel
  <1>3. x # 0 /\ x - 1 \in Nat /\ x - 1 < x
    OBVIOUS
  <1> QED
    BY <1>2, <1>3

Entry(wanted, got, i) == <<Sections[i], IF Sections[i] \in got THEN "ok" ELSE "not_readable">>

Extended(out, wanted, got, i) ==
    IF Sections[i] \notin wanted THEN out ELSE Append(out, Entry(wanted, got, i))

\* What the pass has made when it has been over the first n sections.
Pass(upTo, wanted, got, n) ==
    upTo = [i \in 0..n |-> IF i = 0 THEN <<>> ELSE Extended(upTo[i - 1], wanted, got, i)]

\* The definition is of a pass: there is one over any number of sections.
LEMMA PassExists ==
  ASSUME NEW wanted, NEW got, NEW n \in Nat
  PROVE  \E upTo : Pass(upTo, wanted, got, n)
  <1> DEFINE S == {k \in Nat : \E upTo : Pass(upTo, wanted, got, k)}
  <1>1. 0 \in S
    <2>1. Pass([i \in 0..0 |-> <<>>], wanted, got, 0)
      BY DEF Pass
    <2> QED
      BY <2>1
  <1>2. ASSUME NEW k \in Nat, k \in S
        PROVE  k + 1 \in S
    <2>1. PICK upTo : Pass(upTo, wanted, got, k)
      BY <1>2
    <2> DEFINE next == [i \in 0..(k + 1) |-> IF i = k + 1 THEN Extended(upTo[k], wanted, got, k + 1)
                                             ELSE upTo[i]]
    <2>2. \A i \in 0..k : upTo[i] = IF i = 0 THEN <<>> ELSE Extended(upTo[i - 1], wanted, got, i)
      BY <2>1 DEF Pass
    <2>3. ASSUME NEW i \in 0..(k + 1)
          PROVE  next[i] = IF i = 0 THEN <<>> ELSE Extended(next[i - 1], wanted, got, i)
      <3>1. CASE i = k + 1
        <4>1. next[k] = upTo[k] /\ k + 1 # 0 /\ (k + 1) - 1 = k
          OBVIOUS
        <4> QED
          BY <3>1, <4>1
      <3>2. CASE i \in 0..k
        <4>1. next[i] = upTo[i] /\ (i # 0 => next[i - 1] = upTo[i - 1])
          BY <3>2
        <4> QED
          BY <2>2, <3>2, <4>1
      <3> QED
        BY <3>1, <3>2
    <2>4. Pass(next, wanted, got, k + 1)
      BY <2>3 DEF Pass
    <2> QED
      BY <2>4
  <1> HIDE DEF S
  <1>3. Nat \subseteq S
    BY <1>1, <1>2, NatSetInduction
  <1> QED
    BY <1>3 DEF S

\* Where a section is in the canonical order.
PlaceOf(name) == CHOOSE k \in DOMAIN Sections : Sections[k] = name

LEMMA PlaceOfSection ==
  ASSUME NEW i \in DOMAIN Sections
  PROVE  PlaceOf(Sections[i]) = i
  BY ServerAssumption DEF PlaceOf, IsInjective

\* What the pass keeps: the sections wanted among those it has been over, each once
\* and in order, and with the status the read gave it.
InOrderUpTo(out, wanted, got, n) ==
    /\ out \in Seq(Range(Sections) \X {"ok", "not_readable"})
    /\ \A a \in DOMAIN out : /\ out[a][1] \in wanted
                             /\ out[a][2] = (IF out[a][1] \in got THEN "ok" ELSE "not_readable")
                             /\ PlaceOf(out[a][1]) \in 1..n
    /\ \A i \in 1..n : Sections[i] \in wanted => \E a \in DOMAIN out : out[a][1] = Sections[i]
    /\ \A a, b \in DOMAIN out : a < b => PlaceOf(out[a][1]) < PlaceOf(out[b][1])

LEMMA ExtendedInOrder ==
  ASSUME NEW wanted, NEW got, NEW n \in Nat, n + 1 \in DOMAIN Sections,
         NEW out, InOrderUpTo(out, wanted, got, n)
  PROVE  InOrderUpTo(Extended(out, wanted, got, n + 1), wanted, got, n + 1)
  <1>1. CASE Sections[n + 1] \notin wanted
    BY <1>1 DEF Extended, InOrderUpTo
  <1>2. CASE Sections[n + 1] \in wanted
    <2> DEFINE E == Range(Sections) \X {"ok", "not_readable"}
               e == Entry(wanted, got, n + 1)
               next == Append(out, e)
    <2>1. e \in E /\ e[1] = Sections[n + 1]
          /\ e[2] = (IF e[1] \in got THEN "ok" ELSE "not_readable")
      BY DEF Entry, Range
    <2>2. PlaceOf(e[1]) = n + 1
      BY <2>1, PlaceOfSection
    <2> HIDE DEF E, e
    <2>3. out \in Seq(E)
      BY DEF InOrderUpTo, E
    <2>4. /\ next \in Seq(E) /\ DOMAIN out = 1..Len(out) /\ Len(out) \in Nat
          /\ DOMAIN next = 1..(Len(out) + 1)
          /\ next[Len(out) + 1] = e
          /\ \A a \in DOMAIN out : next[a] = out[a]
      BY <2>1, <2>3
    <2> HIDE DEF next
    <2>5. \A a \in DOMAIN next : \/ a \in DOMAIN out /\ next[a] = out[a]
                                 \/ a = Len(out) + 1 /\ next[a] = e
      BY <2>4
    <2>6. \A a \in DOMAIN next :
             /\ next[a][1] \in wanted
             /\ next[a][2] = (IF next[a][1] \in got THEN "ok" ELSE "not_readable")
             /\ PlaceOf(next[a][1]) \in 1..(n + 1)
      BY <1>2, <2>1, <2>2, <2>5 DEF InOrderUpTo
    <2>7. \A i \in 1..(n + 1) :
             Sections[i] \in wanted => \E a \in DOMAIN next : next[a][1] = Sections[i]
      <3> TAKE i \in 1..(n + 1)
      <3> HAVE Sections[i] \in wanted
      <3>1. CASE i = n + 1
        BY <2>1, <2>4, <3>1
      <3>2. CASE i \in 1..n
        <4>1. PICK a \in DOMAIN out : out[a][1] = Sections[i]
          BY <3>2 DEF InOrderUpTo
        <4> QED
          BY <2>4, <4>1
      <3> QED
        BY <3>1, <3>2
    <2>8. \A a, b \in DOMAIN next : a < b => PlaceOf(next[a][1]) < PlaceOf(next[b][1])
      <3> TAKE a, b \in DOMAIN next
      <3> HAVE a < b
      <3>1. a \in DOMAIN out /\ next[a] = out[a] /\ PlaceOf(out[a][1]) \in 1..n
        BY <2>4 DEF InOrderUpTo
      <3>2. CASE b = Len(out) + 1
        BY <2>2, <2>4, <3>1, <3>2
      <3>3. CASE b \in DOMAIN out
        BY <2>4, <3>1, <3>3 DEF InOrderUpTo
      <3> QED
        BY <2>4, <3>2, <3>3
    <2>9. Extended(out, wanted, got, n + 1) = next
      BY <1>2 DEF Extended, next, e
    <2> QED
      BY <2>4, <2>6, <2>7, <2>8, <2>9 DEF InOrderUpTo, E
  <1> QED
    BY <1>1, <1>2

\* InOrder: the sections wanted of the canonical order, and nothing else.
LEMMA InOrderIsInOrder ==
  ASSUME NEW wanted, NEW got
  PROVE  InOrderUpTo(InOrder(wanted, got), wanted, got, Len(Sections))
  <1> DEFINE N == Len(Sections)
             upTo == CHOOSE f : Pass(f, wanted, got, N)
             S == {k \in Nat : k <= N => InOrderUpTo(upTo[k], wanted, got, k)}
  <1>1. N \in Nat /\ DOMAIN Sections = 1..N
    BY ServerAssumption
  <1>2. InOrder(wanted, got) = upTo[N]
    BY DEF InOrder, Pass, Extended, Entry
  <1>3. Pass(upTo, wanted, got, N)
    BY <1>1, PassExists
  <1> HIDE DEF N, upTo
  <1>4. \A i \in 0..N : upTo[i] = IF i = 0 THEN <<>> ELSE Extended(upTo[i - 1], wanted, got, i)
    BY <1>3 DEF Pass
  <1>5. 0 \in S
    <2>1. upTo[0] = <<>>
      BY <1>1, <1>4
    <2>2. InOrderUpTo(<<>>, wanted, got, 0)
      BY DEF InOrderUpTo
    <2> QED
      BY <2>1, <2>2
  <1>6. ASSUME NEW k \in Nat, k \in S
        PROVE  k + 1 \in S
    <2>1. CASE k + 1 <= N
      <3>1. InOrderUpTo(upTo[k], wanted, got, k) /\ k + 1 \in DOMAIN Sections
        BY <1>1, <1>6, <2>1
      <3>2. upTo[k + 1] = Extended(upTo[k], wanted, got, k + 1)
        BY <1>1, <1>4, <2>1
      <3> QED
        BY <3>1, <3>2, ExtendedInOrder
    <2> QED
      BY <2>1
  <1>7. Nat \subseteq S
    <2> HIDE DEF S
    <2> QED
      BY <1>5, <1>6, NatSetInduction
  <1> QED
    BY <1>1, <1>2, <1>7 DEF N

-----------------------------------------------------------------------------
(* Part 3: one client moves.                                               *)

\* The client that holds the lock, or takes it free, moves: nobody else is in a
\* tool.
LEMMA OneMoves ==
  ASSUME ServerInv, NEW c \in Client, runs[c].pc # 0 \/ lock \in {None, c},
         NEW run \in Run, runs' = [runs EXCEPT ![c] = run], lock' = c,
         last' \in {last, c}, run.records = 1 => last' = c,
         SessionTyped', RunOK(run)'
  PROVE  ServerInv'
  <1>1. lock \in {None, c}
    BY DEF ServerInv
  <1>2. ASSUME NEW d \in Client, d # c
        PROVE  runs[d].pc = 0 /\ runs[d] = Idle /\ runs'[d] = Idle
    BY <1>1, <1>2, ServerAssumption DEF ServerInv, ServerTypeOK
  <1>3. runs'[c] = run /\ runs' \in [Client -> Run]
    BY DEF ServerInv, ServerTypeOK
  <1>4. ServerTypeOK' /\ SessionOK'
    BY <1>3 DEF SessionTyped, ServerTypeOK, ServerInv
  <1>5. ASSUME NEW d \in Client
        PROVE  (IF runs[d].pc = 0 THEN runs[d] = Idle
                ELSE /\ lock = d /\ RunOK(runs[d])
                     /\ runs[d].records = 1 => last = d)'
    <2>1. CASE d = c
      <3>1. RunOK(runs[c])'
        BY <1>3 DEF RunOK, ReadStillHolds, Scope
      <3> QED
        BY <1>3, <2>1, <3>1 DEF RunOK
    <2>2. CASE d # c
      BY <1>2, <2>2 DEF Idle
    <2> QED
      BY <2>1, <2>2
  <1> QED
    BY <1>4, <1>5 DEF ServerInv

\* A client at a step of a tool, as the invariant has it.
LEMMA AtStep ==
  ASSUME ServerInv, NEW c \in Client, Step(c) # "none"
  PROVE  /\ runs[c] \in Run
         /\ runs[c].pc # 0 /\ runs[c].answer = "none" /\ lock = c
         /\ runs[c].tool \in Tool
         /\ runs[c].pc \in DOMAIN Script[runs[c].tool]
         /\ Script[runs[c].tool][runs[c].pc] = Step(c)
         /\ RunOK(runs[c]) /\ OnItsWay(runs[c])
         /\ runs[c].records = 1 => last = c
         /\ runs[c].got \subseteq runs[c].asked
         /\ IF runs[c].tool \in Readers THEN ReadStillHolds(runs[c])
            ELSE runs[c].read = Nowhere
         /\ SessionTyped
  <1>1. runs[c] \in Run /\ runs[c].pc # 0 /\ runs[c].answer = "none"
    BY DEF ServerInv, ServerTypeOK, Step
  <1>2. lock = c /\ RunOK(runs[c]) /\ (runs[c].records = 1 => last = c)
    BY <1>1 DEF ServerInv
  <1>3. runs[c].tool \in Tool
    BY <1>1 DEF Run
  <1>4. Script[runs[c].tool][runs[c].pc] = Step(c)
    BY <1>1 DEF Step
  <1>5. SessionTyped
    BY DEF ServerInv, ServerTypeOK, SessionTyped
  <1> QED
    BY <1>1, <1>2, <1>3, <1>4, <1>5 DEF RunOK, OnItsWay

\* What a step leaves of a run before its place or its answer is set.
Keeps(run, c) ==
    /\ run \in Run
    /\ run.tool = runs[c].tool /\ run.pc = runs[c].pc /\ run.asked = runs[c].asked
    /\ run.answer = "none" /\ run.got \subseteq run.asked

\* The log's last record is the client's when the step is of a dispatch's end.
Logs(run, c) ==
    IF Step(c) = "record" THEN run.records = runs[c].records + 1 /\ last' = c
    ELSE run.records = runs[c].records /\ last' = last

\* A client goes on to its tool's next step.
LEMMA GoesOn ==
  ASSUME ServerInv, NEW c \in Client, Step(c) # "none", NEW run, Keeps(run, c),
         Logs(run, c), Goes(c, run), lock' = lock, SessionTyped',
         runs[c].pc + 1 \in DOMAIN Script[runs[c].tool],
         run.result # "none" \/ Step(c) = "verify",
         IF runs[c].tool \in Readers THEN ReadStillHolds([run EXCEPT !.pc = @ + 1])'
         ELSE run.read = Nowhere
  PROVE  ServerInv'
  <1> DEFINE next == [run EXCEPT !.pc = @ + 1]
             t == runs[c].tool
             p == runs[c].pc
  <1>1. run \in Run /\ t \in Tool /\ p \in DOMAIN Script[t] /\ p \in 1..6 /\ p + 1 \in 1..6
    <2>1. run \in Run /\ t \in Tool /\ p \in DOMAIN Script[t] /\ p + 1 \in DOMAIN Script[t]
      BY AtStep DEF Keeps
    <2> HIDE DEF t, p
    <2> QED
      BY <2>1, ScriptLength
  <1>2. next \in Run /\ next.pc = p + 1 /\ next.tool = t /\ next.asked = runs[c].asked
        /\ next.records = run.records /\ next.answer = "none" /\ next.read = run.read
        /\ next.result = run.result /\ next.got \subseteq next.asked
    <2>1. run.pc = p /\ run.pc + 1 \in 0..7
      BY <1>1 DEF Keeps
    <2> QED
      BY <1>1, <2>1 DEF Keeps, Run
  <1>3. OnItsWay(next)
    <2>1. runs[c].records = Cardinality(RecordsIn(t, p - 1)) /\ Unknown \notin runs[c].asked
      BY AtStep DEF OnItsWay, RecordsIn
    <2>2. next.records = Cardinality(RecordsIn(t, p))
      BY <1>1, <1>2, <2>1, AtStep, RecordsOfSteps DEF Logs
    <2>3. (p + 1) - 1 = p
      BY <1>1
    <2>4. Script[t][p] = "verify" => Script[t][p + 1] # "record"
      BY <1>1, AfterVerify
    <2>5. Script[t][p] = Step(c)
      BY AtStep
    <2> HIDE DEF next
    <2> QED
      BY <1>1, <1>2, <2>1, <2>2, <2>3, <2>4, <2>5 DEF OnItsWay, RecordsIn
  <1>4. RunOK(next)'
    <2>1. (next.tool \in Readers => ReadStillHolds(next)') /\ (next.tool \notin Readers => next.read = Nowhere)
      BY <1>2
    <2> HIDE DEF next
    <2> QED
      BY <1>1, <1>2, <1>3, <2>1 DEF RunOK
  <1>5. next.records = 1 => last' = c
    BY <1>1, <1>2, AtStep DEF Logs
  <1>6. runs' = [runs EXCEPT ![c] = next] /\ lock' = c /\ last' \in {last, c}
    BY AtStep DEF Goes, Logs
  <1> HIDE DEF next
  <1> QED
    BY <1>2, <1>4, <1>5, <1>6, AtStep, OneMoves

\* A client's tool ends with its answer.
LEMMA EndsWith ==
  ASSUME ServerInv, NEW c \in Client, Step(c) # "none", NEW run, Keeps(run, c),
         (run.records = runs[c].records /\ last' = last) \/ Logs(run, c),
         NEW answer \in Answer \ {"none"}, Ends(c, run, answer),
         lock' = lock, SessionTyped',
         IF runs[c].tool \in Readers THEN ReadAnswered([run EXCEPT !.answer = answer])
         ELSE run.read = Nowhere
  PROVE  ServerInv'
  <1> DEFINE next == [run EXCEPT !.answer = answer]
  <1>1. run \in Run /\ runs[c].pc # 0
    BY AtStep DEF Keeps
  <1>2. next \in Run /\ next.pc = runs[c].pc /\ next.tool = runs[c].tool
        /\ next.records = run.records /\ next.answer = answer /\ next.read = run.read
        /\ next.got \subseteq next.asked
    BY <1>1 DEF Keeps, Run
  <1>3. RunOK(next)'
    <2>1. (next.tool \in Readers => ReadAnswered(next)) /\ (next.tool \notin Readers => next.read = Nowhere)
      BY <1>2
    <2> HIDE DEF next
    <2> QED
      BY <1>1, <1>2, <2>1 DEF RunOK
  <1>4. next.records = 1 => last' = c
    BY <1>1, <1>2, AtStep DEF Logs
  <1>5. runs' = [runs EXCEPT ![c] = next] /\ lock' = c /\ last' \in {last, c}
    BY AtStep DEF Ends, Logs
  <1> HIDE DEF next
  <1> QED
    BY <1>2, <1>3, <1>4, <1>5, AtStep, OneMoves

-----------------------------------------------------------------------------
(* Part 4: every action keeps the invariant.                               *)

LEMMA CallKeeps ==
  ASSUME ServerInv, NEW c \in Client, NEW tool \in Tool, NEW asked \in Requests(tool),
         Call(c, tool, asked)
  PROVE  ServerInv'
  <1>0. PICK run : run = [Idle EXCEPT !.tool = tool, !.pc = 1, !.asked = asked,
                                      !.answer = Checked(asked)]
    OBVIOUS
  <1>1. asked \in SUBSET (Range(Sections) \union {Unknown})
    BY DEF Requests
  <1>2. Checked(asked) \in {"none", "assembly_error"} /\ Checked(asked) \in Answer
        /\ (Checked(asked) = "none" => Unknown \notin asked)
    BY DEF Checked, Answer
  <1>3. run \in Run /\ run.pc = 1 /\ run.tool = tool /\ run.asked = asked /\ run.read = Nowhere
        /\ run.answer = Checked(asked) /\ run.records = 0 /\ run.got = {}
    <2>1. Nowhere \in Origin /\ "preflight_environment" \in Tool
      BY DEF Nowhere, Origin, Tool, Script
    <2>2. <<>> \in Seq(Range(Sections) \X {"ok", "not_readable"})
      OBVIOUS
    <2>3. 0 \in 0..2 /\ 1 \in 0..7 /\ {} \in SUBSET Range(Sections)
      OBVIOUS
    <2> QED
      BY <1>0, <1>1, <1>2, <2>1, <2>2, <2>3 DEF Idle, Run
  <1>4. SessionTyped'
    BY DEF ServerInv, ServerTypeOK, SessionTyped, SessionOK, Call, lifecycleVars
  <1>5. RunOK(run)'
    <2>1. run.answer = "none" => OnItsWay(run)
      <3>1. 1 \in DOMAIN Script[tool]
        BY ScriptLength
      <3>2. {i \in 1..(1 - 1) : Script[tool][i] = "record"} = RecordsIn(tool, 0)
        BY DEF RecordsIn
      <3>3. Cardinality(RecordsIn(tool, 0)) = 0
        BY <3>1, RecordsOfSteps
      <3>4. Script[tool][1] # "record"
        BY <3>1, ScriptSteps
      <3> QED
        BY <1>2, <1>3, <3>1, <3>2, <3>3, <3>4 DEF OnItsWay
    <2>2. ReadStillHolds(run)' /\ (run.answer # "none" => ReadAnswered(run))
      BY <1>2, <1>3 DEF ReadStillHolds, ReadAnswered
    <2> QED
      BY <1>3, <2>1, <2>2 DEF RunOK
  <1>6. runs' = [runs EXCEPT ![c] = run] /\ lock' = c /\ last' \in {last, c}
        /\ lock \in {None, c}
    BY <1>0 DEF Call, Free
  <1>7. run.records = 1 => last' = c
    BY <1>3
  <1> QED
    BY <1>3, <1>4, <1>5, <1>6, <1>7, OneMoves

LEMMA ReturnKeeps ==
  ASSUME ServerInv, NEW c \in Client, Return(c)
  PROVE  ServerInv'
  <1>1. runs[c] # Idle
    BY DEF Return, Idle
  <1>2. lock = c
    BY <1>1 DEF ServerInv
  <1>3. ASSUME NEW d \in Client
        PROVE  runs'[d] = Idle
    BY <1>2, <1>3 DEF ServerInv, ServerTypeOK, Return
  <1>4. runs' \in [Client -> Run]
    <2>1. Idle \in Run
      <3>1. Nowhere \in Origin /\ "preflight_environment" \in Tool /\ "none" \in Answer
        BY DEF Nowhere, Origin, Tool, Script, Answer
      <3>2. <<>> \in Seq(Range(Sections) \X {"ok", "not_readable"})
        OBVIOUS
      <3> QED
        BY <3>1, <3>2 DEF Idle, Run
    <2> QED
      BY <2>1 DEF Return, ServerInv, ServerTypeOK
  <1>5. ServerTypeOK' /\ SessionOK'
    BY <1>4 DEF Return, Released, ServerInv, ServerTypeOK, SessionOK, lifecycleVars
  <1>6. Idle.pc = 0
    BY DEF Idle
  <1> QED
    BY <1>3, <1>5, <1>6 DEF ServerInv

\* A step the session does not move in leaves the session, and what it scopes.
LEMMA SessionStays ==
  ASSUME SessionTyped, UNCHANGED lifecycleVars
  PROVE  SessionTyped' /\ Scope' = Scope
  BY DEF SessionTyped, SessionOK, lifecycleVars, Scope

\* The session moves only by steps of its lifecycle.
LEMMA SessionMoves ==
  ASSUME SessionTyped,
         \/ UNCHANGED lifecycleVars \/ Doubt \/ Lose \/ Recover \/ FailToAttach
         \/ \E p \in Process : Attach(p)
         \/ \E s \in Stage : \E v \in ValueOf(s) : Select(s, v)
  PROVE  SessionTyped'
  BY LifecycleStep DEF Next

\* Where a step stands in its tool.
LEMMA PlaceOfStep ==
  ASSUME NEW t \in Tool, NEW p \in DOMAIN Script[t]
  PROVE  /\ p \in 1..6
         /\ Script[t][p] \in {"verify", "attach", "list", "select", "read", "status",
                              "intent", "history"} => p + 1 \in DOMAIN Script[t]
         /\ t \in Readers => /\ Script[t][p] \in {"verify", "read", "record", "status", "stamp"}
                             /\ Script[t][p] = "verify" <=> p = 1
                             /\ Script[t][p] = "read" <=> p = 2
                             /\ Script[t][p] = "record" <=> p \in {3, 5}
                             /\ Script[t][p] = "status" <=> p = 4
                             /\ Script[t][p] = "stamp" <=> p = 6
  <1>1. p \in 1..6
    BY ScriptLength
  <1>2. ASSUME t \in Readers
        PROVE  /\ Script[t][p] \in {"verify", "read", "record", "status", "stamp"}
               /\ Script[t][p] = "verify" <=> p = 1
               /\ Script[t][p] = "read" <=> p = 2
               /\ Script[t][p] = "record" <=> p \in {3, 5}
               /\ Script[t][p] = "status" <=> p = 4
               /\ Script[t][p] = "stamp" <=> p = 6
    <2>1. p \in {1, 2, 3, 4, 5, 6}
      BY <1>1
    <2> QED
      BY <1>2, <2>1, ReaderScript
  <1>3. Script[t][p] \in {"verify", "attach", "list", "select", "read", "status",
                          "intent", "history"} => p + 1 \in DOMAIN Script[t]
    BY ScriptSteps, ScriptShape
  <1> QED
    BY <1>1, <1>2, <1>3

LEMMA VerifyKeeps ==
  ASSUME ServerInv, NEW c \in Client, Verify(c)
  PROVE  ServerInv'
  <1>0. PICK run : run = runs[c]
    OBVIOUS
  <1>1. Step(c) = "verify" /\ Step(c) # "none" /\ lock' = lock /\ Goes(c, run)
    BY <1>0 DEF Verify
  <1>2. Keeps(run, c) /\ Logs(run, c)
    BY <1>0, <1>1, AtStep DEF Keeps, Logs, Verify
  <1>3. SessionTyped'
    BY <1>1, AtStep, SessionMoves DEF Verify
  <1>4. IF runs[c].tool \in Readers THEN ReadStillHolds([run EXCEPT !.pc = @ + 1])'
        ELSE run.read = Nowhere
    <2>1. CASE runs[c].tool \in Readers
      <3>1. run.pc = 1 /\ run \in Run /\ run.read = Nowhere
        BY <1>0, <1>1, <2>1, AtStep, PlaceOfStep DEF ReadStillHolds
      <3> QED
        BY <2>1, <3>1 DEF ReadStillHolds, Run
    <2> QED
      BY <1>0, <1>1, <2>1, AtStep
  <1>5. runs[c].pc + 1 \in DOMAIN Script[runs[c].tool]
    BY <1>1, AtStep, PlaceOfStep
  <1> QED
    BY <1>1, <1>2, <1>3, <1>4, <1>5, GoesOn

\* A step that is not a read-out's leaves its result, the session wherever it goes.
LEMMA GivesKeeps ==
  ASSUME ServerInv, NEW c \in Client, NEW result \in Result, Gives(c, result),
         Step(c) \in {"attach", "list", "select", "intent", "history"},
         lock' = lock, last' = last, SessionTyped'
  PROVE  ServerInv'
  <1>0. PICK run : run = [runs[c] EXCEPT !.result = result]
    OBVIOUS
  <1>1. runs[c] \in Run /\ runs[c].tool \in Tool /\ runs[c].tool \notin Readers
    BY AtStep, PlaceOfStep
  <1>2. Keeps(run, c) /\ Logs(run, c) /\ run.read = Nowhere /\ run.result # "none"
    <2>1. result # "none"
      BY DEF Result
    <2> QED
      BY <2>1, <1>0, <1>1, AtStep DEF Keeps, Logs, Run
  <1>3. runs[c].pc + 1 \in DOMAIN Script[runs[c].tool]
    BY AtStep, PlaceOfStep
  <1>4. Goes(c, run)
    BY <1>0 DEF Gives
  <1> QED
    BY <1>1, <1>2, <1>3, <1>4, GoesOn

\* The gates' answers, and the ends of a call, are results.
LEMMA ResultsOfSteps ==
  /\ \A s \in Stage : StageRefusal(s) # "none" => StageRefusal(s) \in Result
  /\ ReadRefusal # "none" => ReadRefusal \in Result \ {"ok"}
  /\ {"ok", "typed_error", "cannot_evaluate"} \subseteq Result
  /\ Result \subseteq Answer \ {"none"}
  BY DEF StageRefusal, ReadRefusal, Result, Answer

LEMMA AttachKeeps ==
  ASSUME ServerInv, NEW c \in Client, AttachStep(c)
  PROVE  ServerInv'
  <1>1. Step(c) = "attach" /\ Step(c) # "none" /\ lock' = lock /\ last' = last
        /\ Gives(c, "ok")
    BY DEF AttachStep
  <1>2. SessionTyped'
    BY <1>1, AtStep, SessionMoves DEF AttachStep
  <1> QED
    BY <1>1, <1>2, GivesKeeps, ResultsOfSteps

LEMMA ListKeeps ==
  ASSUME ServerInv, NEW c \in Client, ListStep(c)
  PROVE  ServerInv'
  <1>1. Step(c) = "list" /\ Step(c) # "none" /\ lock' = lock /\ last' = last
    BY DEF ListStep
  <1>2. PICK result \in Result : Gives(c, result)
    BY ResultsOfSteps DEF ListStep, Fails
  <1>3. SessionTyped'
    BY <1>1, AtStep, SessionMoves DEF ListStep, Fails
  <1> QED
    BY <1>1, <1>2, <1>3, GivesKeeps

LEMMA SelectKeeps ==
  ASSUME ServerInv, NEW c \in Client, SelectStep(c)
  PROVE  ServerInv'
  <1>1. Step(c) = "select" /\ Step(c) # "none" /\ lock' = lock /\ last' = last
    BY DEF SelectStep
  <1>2. PICK result \in Result : Gives(c, result)
    BY ResultsOfSteps DEF SelectStep, Fails
  <1>3. SessionTyped'
    BY <1>1, AtStep, SessionMoves DEF SelectStep, Fails
  <1> QED
    BY <1>1, <1>2, <1>3, GivesKeeps

LEMMA HistoryKeeps ==
  ASSUME ServerInv, NEW c \in Client, HistoryStep(c)
  PROVE  ServerInv'
  <1>1. Step(c) = "history" /\ Step(c) # "none" /\ lock' = lock /\ last' = last
    BY DEF HistoryStep
  <1>2. PICK result \in Result : Gives(c, result)
    BY ResultsOfSteps DEF HistoryStep
  <1>3. SessionTyped'
    BY <1>1, AtStep, SessionStays DEF HistoryStep
  <1> QED
    BY <1>1, <1>2, <1>3, GivesKeeps

LEMMA IntentKeeps ==
  ASSUME ServerInv, NEW c \in Client, IntentStep(c)
  PROVE  ServerInv'
  <1>1. Step(c) = "intent" /\ Step(c) # "none" /\ lock' = lock /\ last' = last
    BY DEF IntentStep
  <1>2. SessionTyped'
    BY <1>1, AtStep, SessionStays DEF IntentStep
  <1>3. CASE Gives(c, "typed_error")
    BY <1>1, <1>2, <1>3, GivesKeeps, ResultsOfSteps
  <1>4. CASE Goes(c, [runs[c] EXCEPT !.result = "ok",
                      !.stamp = IF runs[c].tool = "get_design_intent" THEN @ ELSE Scope])
    <2>1. PICK run : run = [runs[c] EXCEPT !.result = "ok",
                      !.stamp = IF runs[c].tool = "get_design_intent" THEN @ ELSE Scope]
      OBVIOUS
    <2>2. runs[c] \in Run /\ runs[c].tool \in Tool /\ runs[c].tool \notin Readers
      BY <1>1, AtStep, PlaceOfStep
    <2>3. Scope \in Origin
      BY <1>1, AtStep DEF SessionTyped, SessionOK, Scope, Origin
    <2>4. "ok" \in Result
      BY ResultsOfSteps
    <2>5. Keeps(run, c) /\ Logs(run, c) /\ run.read = Nowhere /\ run.result # "none"
      BY <1>1, <2>1, <2>2, <2>3, <2>4, AtStep DEF Keeps, Logs, Run
    <2>6. runs[c].pc + 1 \in DOMAIN Script[runs[c].tool]
      BY <1>1, AtStep, PlaceOfStep
    <2> QED
      BY <1>1, <1>2, <1>4, <2>1, <2>2, <2>5, <2>6, GoesOn
  <1> QED
    BY <1>3, <1>4 DEF IntentStep

\* A design that is read is read in the session's scope, and that is complete.
LEMMA ReadKeeps ==
  ASSUME ServerInv, NEW c \in Client, ReadStep(c)
  PROVE  ServerInv'
  <1>1. Step(c) = "read" /\ Step(c) # "none" /\ lock' = lock /\ last' = last
    BY DEF ReadStep
  <1>2. runs[c] \in Run /\ runs[c].tool \in Tool /\ runs[c].tool \in Readers
        /\ runs[c].pc = 2 /\ runs[c].read = Nowhere
    BY <1>1, AtStep, ScriptSteps, PlaceOfStep DEF ReadStillHolds
  <1>3. runs[c].pc + 1 \in DOMAIN Script[runs[c].tool]
    BY <1>1, AtStep, PlaceOfStep
  <1>4. ASSUME NEW result \in Result \ {"ok"}, Gives(c, result), SessionTyped'
        PROVE  ServerInv'
    <2>1. PICK run : run = [runs[c] EXCEPT !.result = result]
      OBVIOUS
    <2>0. result # "none"
      BY DEF Result
    <2>2. Keeps(run, c) /\ Logs(run, c) /\ Goes(c, run)
      BY <1>1, <1>2, <1>4, <2>1, AtStep DEF Keeps, Logs, Run, Gives
    <2>3. run \in Run /\ run.pc = 2 /\ run.read = Nowhere /\ run.result \notin {"ok", "none"}
      BY <2>0, <1>2, <1>4, <2>1 DEF Run
    <2>4. ReadStillHolds([run EXCEPT !.pc = @ + 1])'
      BY <2>3 DEF ReadStillHolds, Run
    <2> QED
      BY <1>1, <1>2, <1>3, <1>4, <2>2, <2>3, <2>4, GoesOn
  <1>5. ASSUME NEW got \in SUBSET runs[c].asked, UNCHANGED lifecycleVars,
               Goes(c, [runs[c] EXCEPT !.result = "ok", !.read = Scope, !.got = got]),
               ReadRefusal = "none"
        PROVE  ServerInv'
    <2>1. PICK run : run = [runs[c] EXCEPT !.result = "ok", !.read = Scope, !.got = got]
      OBVIOUS
    <2>2. SessionTyped /\ SessionTyped' /\ Scope' = Scope
      BY <1>1, <1>5, AtStep, SessionStays
    <2>3. Scope \in Origin /\ Scope # Nowhere /\ ~Unattributable(Scope)
      BY <1>5, <2>2
      DEF SessionTyped, SessionOK, Scope, Origin, Nowhere, Unattributable, ReadRefusal
    <2>4. got \in SUBSET Range(Sections)
      <3>1. runs[c].asked \in SUBSET (Range(Sections) \union {Unknown})
        BY <1>2 DEF Run
      <3>2. Unknown \notin runs[c].asked
        BY <1>1, AtStep DEF OnItsWay
      <3> QED
        BY <1>5, <3>1, <3>2
    <2>5. "ok" \in Result
      BY ResultsOfSteps
    <2>6. Keeps(run, c) /\ Logs(run, c)
      BY <1>1, <1>2, <2>1, <2>3, <2>4, <2>5, AtStep DEF Keeps, Logs, Run
    <2>7. run \in Run /\ run.pc = 2 /\ run.read = Scope /\ run.result = "ok"
      BY <1>2, <2>1, <2>6 DEF Run, Keeps
    <2>8. PICK next : next = [run EXCEPT !.pc = @ + 1]
      OBVIOUS
    <2>9. next.pc = 3 /\ next.read = Scope /\ next.result = "ok"
      BY <2>7, <2>8 DEF Run
    <2>10. ReadStillHolds(next)'
      BY <2>2, <2>3, <2>9 DEF ReadStillHolds
    <2>11. ReadStillHolds([run EXCEPT !.pc = @ + 1])'
      BY <2>8, <2>10
    <2>12. Goes(c, run)
      BY <1>5, <2>1
    <2> QED
      BY <1>1, <1>2, <1>3, <2>2, <2>6, <2>7, <2>11, <2>12, GoesOn
  <1>6. CASE ReadRefusal # "none"
    BY <1>1, <1>4, <1>6, AtStep, SessionStays, ResultsOfSteps DEF ReadStep
  <1>7. CASE Fails(c)
    <2>1. "cannot_evaluate" \in Result \ {"ok"}
      BY DEF Result
    <2> QED
      BY <1>1, <1>4, <1>7, <2>1, AtStep, SessionMoves DEF Fails
  <1> QED
    BY <1>5, <1>6, <1>7 DEF ReadStep

\* The status takes its half of the stamp from the session the read was of.
LEMMA StatusKeeps ==
  ASSUME ServerInv, NEW c \in Client, StatusStep(c)
  PROVE  ServerInv'
  <1>1. Step(c) = "status" /\ Step(c) # "none" /\ lock' = lock /\ last' = last
    BY DEF StatusStep
  <1>2. runs[c] \in Run /\ runs[c].tool \in Tool
    BY <1>1, AtStep
  <1>3. SessionTyped /\ SessionTyped' /\ Scope' = Scope
    BY <1>1, AtStep, SessionStays DEF StatusStep
  <1>4. PICK run : run = [runs[c] EXCEPT !.result = "ok",
                               !.stamp.project = selections["project"],
                               !.stamp.design = selections["design"]]
    OBVIOUS
  <1>5. "ok" \in Result
    BY ResultsOfSteps
  <1>6. runs[c].stamp \in Origin
    BY <1>2 DEF Run
  <1>7. PICK stamp : stamp = [runs[c].stamp EXCEPT !.project = selections["project"],
                                                   !.design = selections["design"]]
    OBVIOUS
  <1>8. stamp \in Origin /\ stamp.project = Scope.project /\ stamp.design = Scope.design
    BY <1>3, <1>6, <1>7 DEF Origin, SessionTyped, SessionOK, Scope
  <1>9. run = [runs[c] EXCEPT !.result = "ok", !.stamp = stamp]
    BY <1>2, <1>4, <1>6, <1>7 DEF Run, Origin
  <1>10. run \in Run /\ run.result = "ok" /\ run.read = runs[c].read /\ run.stamp = stamp
         /\ run.pc = runs[c].pc /\ run.tool = runs[c].tool /\ run.asked = runs[c].asked
         /\ run.records = runs[c].records /\ run.answer = runs[c].answer /\ run.got = runs[c].got
    BY <1>2, <1>5, <1>8, <1>9 DEF Run
  <1>11. Keeps(run, c) /\ Logs(run, c) /\ Goes(c, run)
    BY <1>1, <1>4, <1>10, AtStep DEF Keeps, Logs, StatusStep
  <1>12. runs[c].pc + 1 \in DOMAIN Script[runs[c].tool]
    BY <1>1, AtStep, PlaceOfStep
  <1>13. IF runs[c].tool \in Readers THEN ReadStillHolds([run EXCEPT !.pc = @ + 1])'
         ELSE run.read = Nowhere
    <2>1. ASSUME runs[c].tool \in Readers
          PROVE  ReadStillHolds([run EXCEPT !.pc = @ + 1])'
      <3>1. run.pc = 4 /\ run.read # Nowhere /\ run.read = Scope /\ ~Unattributable(run.read)
        BY <1>1, <1>10, <2>1, AtStep, PlaceOfStep DEF ReadStillHolds
      <3>2. PICK next : next = [run EXCEPT !.pc = @ + 1]
        OBVIOUS
      <3>3. next.pc = 5 /\ next.read = run.read /\ next.result = "ok" /\ next.stamp = stamp
        BY <1>10, <3>1, <3>2 DEF Run
      <3>4. ReadStillHolds(next)'
        BY <1>3, <1>8, <3>1, <3>3 DEF ReadStillHolds
      <3> QED
        BY <3>2, <3>4
    <2> QED
      BY <1>1, <1>10, <2>1, AtStep
  <1> QED
    BY <1>1, <1>3, <1>10, <1>11, <1>12, <1>13, GoesOn

\* The environment a preflight puts in its stamp.
LEMMA PreflightKeeps ==
  ASSUME ServerInv, NEW c \in Client, PreflightStep(c)
  PROVE  ServerInv'
  <1>1. Step(c) = "preflight" /\ Step(c) # "none" /\ lock' = lock /\ last' = last
    BY DEF PreflightStep
  <1>2. runs[c] \in Run /\ runs[c].tool \in Tool /\ runs[c].tool \notin Readers
        /\ runs[c].read = Nowhere
    BY <1>1, AtStep, PlaceOfStep
  <1>3. SessionTyped /\ SessionTyped'
    BY <1>1, AtStep, SessionStays DEF PreflightStep
  <1>4. PICK run : run = [runs[c] EXCEPT !.result = "ok", !.stamp.process = environment]
    OBVIOUS
  <1>5. run \in Run /\ run.read = Nowhere /\ run.result = "ok"
         /\ run.pc = runs[c].pc /\ run.tool = runs[c].tool /\ run.asked = runs[c].asked
         /\ run.records = runs[c].records /\ run.answer = runs[c].answer /\ run.got = runs[c].got
    <2>1. PICK stamp : stamp = [runs[c].stamp EXCEPT !.process = environment]
      OBVIOUS
    <2>2. stamp \in Origin
      BY <1>2, <1>3, <2>1 DEF Run, Origin, SessionTyped
    <2>3. run = [runs[c] EXCEPT !.result = "ok", !.stamp = stamp]
      BY <1>2, <1>4, <2>1 DEF Run
    <2>4. "ok" \in Result
      BY ResultsOfSteps
    <2> QED
      BY <1>2, <2>2, <2>3, <2>4 DEF Run
  <1>6. Keeps(run, c) /\ Logs(run, c)
    BY <1>1, <1>5, AtStep DEF Keeps, Logs, PreflightStep
  <1>7. CASE runs[c].tool = "preflight_environment"
    <2>1. Ends(c, run, "ok")
      BY <1>4, <1>7 DEF PreflightStep
    <2>2. "ok" \in Answer \ {"none"}
      BY DEF Answer, Result
    <2> QED
      BY <1>1, <1>2, <1>3, <1>5, <1>6, <2>1, <2>2, EndsWith
  <1>8. CASE runs[c].tool # "preflight_environment"
    <2>1. Goes(c, run)
      BY <1>4, <1>8 DEF PreflightStep
    <2>2. runs[c].pc + 1 \in DOMAIN Script[runs[c].tool]
      <3>1. Script[runs[c].tool][runs[c].pc] = "preflight" /\ runs[c].pc \in DOMAIN Script[runs[c].tool]
        BY <1>1, AtStep
      <3> QED
        BY <1>2, <1>8, <3>1, ScriptSteps
    <2> QED
      BY <1>1, <1>2, <1>3, <1>5, <1>6, <2>1, <2>2, GoesOn
  <1> QED
    BY <1>7, <1>8

\* A record that could be written: the dispatch's failure is the tool's answer, and
\* a design that was read goes on to be stamped.
LEMMA RecordedKeeps ==
  ASSUME ServerInv, NEW c \in Client, Recorded(c)
  PROVE  ServerInv'
  <1>1. Step(c) = "record" /\ Step(c) # "none" /\ lock' = lock /\ last' = c
    BY DEF Recorded, KeepsLock
  <1>2. runs[c] \in Run /\ runs[c].tool \in Tool /\ runs[c].pc \in DOMAIN Script[runs[c].tool]
        /\ Script[runs[c].tool][runs[c].pc] = "record"
    BY <1>1, AtStep
  <1>3. SessionTyped /\ SessionTyped' /\ Scope' = Scope
    BY <1>1, AtStep, SessionStays DEF Recorded
  <1>4. runs[c].records \in {0, 1}
    BY <1>1, <1>2, AtStep, RecordsOfSteps DEF OnItsWay, RecordsIn
  <1>5. PICK run : run = [runs[c] EXCEPT !.records = @ + 1]
    OBVIOUS
  <1>6. run \in Run /\ run.records = runs[c].records + 1 /\ run.result = runs[c].result
         /\ run.pc = runs[c].pc /\ run.tool = runs[c].tool /\ run.asked = runs[c].asked
         /\ run.read = runs[c].read /\ run.stamp = runs[c].stamp
         /\ run.answer = runs[c].answer /\ run.got = runs[c].got
    BY <1>2, <1>4, <1>5 DEF Run
  <1>7. Keeps(run, c) /\ Logs(run, c)
    BY <1>1, <1>6, AtStep DEF Keeps, Logs
  <1>8. runs[c].tool \in Readers =>
            /\ runs[c].pc \in {3, 5} /\ ReadStillHolds(runs[c])
            /\ runs[c].pc # Len(Script[runs[c].tool])
    BY <1>1, <1>2, AtStep, PlaceOfStep, ReaderScript
  <1>9. runs[c].tool \notin Readers => runs[c].read = Nowhere
    BY <1>1, AtStep
  <1>10. ASSUME NEW answer \in Answer \ {"none"}, Ends(c, run, answer),
                runs[c].tool \in Readers => runs[c].read = Nowhere /\ answer # "ok"
         PROVE  ServerInv'
    <2>1. runs[c].tool \in Readers => ReadAnswered([run EXCEPT !.answer = answer])
      <3>1. PICK next : next = [run EXCEPT !.answer = answer]
        OBVIOUS
      <3>2. next.read = run.read /\ next.answer = answer
        BY <1>6, <3>1 DEF Run
      <3>3. runs[c].tool \in Readers => ReadAnswered(next)
        BY <1>6, <1>10, <3>2 DEF ReadAnswered
      <3> QED
        BY <3>1, <3>3
    <2> QED
      BY <1>1, <1>3, <1>6, <1>7, <1>9, <1>10, <2>1, EndsWith
  <1>11. CASE runs[c].result = "typed_error"
    <2>1. Ends(c, run, "raised")
      BY <1>5, <1>11 DEF Recorded
    <2>2. "raised" \in Answer \ {"none"}
      BY DEF Answer
    <2>3. runs[c].tool \in Readers => runs[c].read = Nowhere
      BY <1>8, <1>11 DEF ReadStillHolds
    <2> QED
      BY <1>10, <2>1, <2>2, <2>3
  <1>12. CASE /\ runs[c].result # "typed_error"
              /\ runs[c].result # "ok" \/ runs[c].pc = Len(Script[runs[c].tool])
    <2>1. Ends(c, run, run.result)
      BY <1>5, <1>6, <1>12 DEF Recorded
    <2>2. run.result \in Answer \ {"none"}
      <3>1. runs[c].result # "none"
        BY <1>1, <1>2, AtStep DEF OnItsWay
      <3> QED
        BY <1>2, <1>6, <3>1 DEF Run, Answer
    <2>3. runs[c].tool \in Readers => runs[c].read = Nowhere /\ run.result # "ok"
      BY <1>6, <1>8, <1>12 DEF ReadStillHolds
    <2> QED
      BY <1>10, <2>1, <2>2, <2>3
  <1>13. CASE runs[c].result = "ok" /\ runs[c].pc # Len(Script[runs[c].tool])
    <2>1. Goes(c, run)
      BY <1>5, <1>13 DEF Recorded
    <2>2. runs[c].pc + 1 \in DOMAIN Script[runs[c].tool]
      BY <1>2, <1>13, ScriptSteps, ScriptShape
    <2>3. runs[c].tool \in Readers => ReadStillHolds([run EXCEPT !.pc = @ + 1])'
      <3>1. PICK next : next = [run EXCEPT !.pc = @ + 1]
        OBVIOUS
      <3>2. next.read = run.read /\ next.result = run.result /\ next.stamp = run.stamp
            /\ next.pc = run.pc + 1
        BY <1>6, <3>1 DEF Run
      <3>3. runs[c].tool \in Readers => ReadStillHolds(next)'
        BY <1>3, <1>6, <1>8, <1>13, <3>2 DEF ReadStillHolds
      <3> QED
        BY <3>1, <3>3
    <2> QED
      BY <1>1, <1>3, <1>6, <1>7, <1>9, <1>13, <2>1, <2>2, <2>3, GoesOn
  <1> QED
    BY <1>11, <1>12, <1>13

\* A record that could not: an assembler's tool ends in an assembly error.
LEMMA NotRecordedKeeps ==
  ASSUME ServerInv, NEW c \in Client, NotRecorded(c)
  PROVE  ServerInv'
  <1>1. Step(c) = "record" /\ Step(c) # "none" /\ lock' = lock /\ last' = last
    BY DEF NotRecorded
  <1>2. runs[c] \in Run /\ runs[c].tool \in Tool /\ runs[c].pc \in DOMAIN Script[runs[c].tool]
    BY <1>1, AtStep
  <1>3. SessionTyped'
    BY <1>1, AtStep, SessionStays DEF NotRecorded
  <1>4. PICK run : run = runs[c]
    OBVIOUS
  <1>5. PICK answer : answer = IF runs[c].result = "typed_error" THEN "raised"
                               ELSE Unaudited(runs[c].tool)
    OBVIOUS
  <1>6. answer \in Answer \ {"none"} /\ Ends(c, run, answer) /\ Keeps(run, c)
    BY <1>1, <1>4, <1>5, AtStep DEF Answer, Unaudited, NotRecorded, Keeps
  <1>7. ASSUME runs[c].tool \in Readers
        PROVE  ReadAnswered([run EXCEPT !.answer = answer])
    <2>1. PICK next : next = [run EXCEPT !.answer = answer]
      OBVIOUS
    <2>2. next.read = run.read /\ next.answer = answer /\ next.pc = run.pc
      BY <1>2, <1>4, <2>1 DEF Run
    <2>3. run.pc \in {3, 5} /\ ReadStillHolds(run)
      BY <1>1, <1>4, <1>7, AtStep, PlaceOfStep
    <2>4. runs[c].tool \in Assembled /\ answer # "ok"
      BY <1>5, <1>7 DEF Readers, Assembled, Unaudited
    <2>5. run.read # Nowhere => answer = "assembly_error"
      BY <1>4, <1>5, <2>3, <2>4 DEF ReadStillHolds, Unaudited
    <2>6. ReadAnswered(next)
      BY <2>2, <2>3, <2>4, <2>5 DEF ReadAnswered
    <2> QED
      BY <2>1, <2>6
  <1> QED
    BY <1>1, <1>3, <1>4, <1>6, <1>7, AtStep, EndsWith

LEMMA WriteKeeps ==
  ASSUME ServerInv, NEW c \in Client, WriteStep(c)
  PROVE  ServerInv'
  <1>1. Step(c) = "write" /\ Step(c) # "none" /\ lock' = lock /\ last' = last
    BY DEF WriteStep
  <1>2. runs[c].tool \in Tool /\ runs[c].tool \notin Readers /\ runs[c].read = Nowhere
    BY <1>1, AtStep, PlaceOfStep
  <1>3. SessionTyped'
    BY <1>1, AtStep, SessionStays DEF WriteStep
  <1>4. PICK run : run = runs[c]
    OBVIOUS
  <1>5. PICK answer \in Answer \ {"none"} : Ends(c, run, answer)
    BY <1>4 DEF WriteStep, Answer, Result
  <1>6. Keeps(run, c)
    BY <1>1, <1>4, AtStep DEF Keeps
  <1> QED
    BY <1>1, <1>2, <1>3, <1>4, <1>5, <1>6, EndsWith

\* The stamp is completed, and the sections put in order, before anybody else has
\* had the lock.
LEMMA StampKeeps ==
  ASSUME ServerInv, NEW c \in Client, StampStep(c)
  PROVE  ServerInv'
  <1>1. Step(c) = "stamp" /\ Step(c) # "none" /\ lock' = lock /\ last' = last
    BY DEF StampStep
  <1>2. runs[c] \in Run /\ runs[c].tool \in Tool /\ runs[c].tool \in Readers
        /\ runs[c].pc = 6 /\ ReadStillHolds(runs[c])
    BY <1>1, AtStep, ScriptSteps, PlaceOfStep
  <1>3. SessionTyped /\ SessionTyped'
    BY <1>1, AtStep, SessionStays DEF StampStep
  <1>4. PICK stamp : stamp = [runs[c].stamp EXCEPT !.process = environment]
    OBVIOUS
  <1>5. stamp = runs[c].read /\ stamp \in Origin /\ ~Unattributable(stamp)
    <2>1. runs[c].read = Scope /\ ~Unattributable(runs[c].read) /\ runs[c].read \in Origin
          /\ runs[c].stamp \in Origin
          /\ runs[c].stamp.project = Scope.project /\ runs[c].stamp.design = Scope.design
      BY <1>2 DEF ReadStillHolds, Run
    <2>2. stamp = Scope
      BY <1>4, <2>1 DEF Origin, Scope
    <2> QED
      BY <2>1, <2>2
  <1>6. PICK first : first = [runs[c] EXCEPT !.stamp.process = environment]
    OBVIOUS
  <1>7. first = [runs[c] EXCEPT !.stamp = stamp]
    BY <1>2, <1>4, <1>6 DEF Run
  <1>8. PICK run : run = [first EXCEPT !.sections = OrderedSections(first.asked, first.got)]
    OBVIOUS
  <1>9. OrderedSections(runs[c].asked, runs[c].got) \in Seq(Range(Sections) \X {"ok", "not_readable"})
    BY InOrderIsInOrder DEF OrderedSections, InOrderUpTo
  <1>10. first \in Run /\ first.stamp = stamp
         /\ run \in Run /\ run.read = runs[c].read /\ run.stamp = stamp
         /\ run.sections = OrderedSections(runs[c].asked, runs[c].got)
         /\ run.pc = runs[c].pc /\ run.tool = runs[c].tool /\ run.asked = runs[c].asked
         /\ run.records = runs[c].records /\ run.answer = runs[c].answer /\ run.got = runs[c].got
    BY <1>2, <1>5, <1>7, <1>8, <1>9 DEF Run
  <1>11. Ends(c, run, "ok") /\ Keeps(run, c)
    BY <1>1, <1>5, <1>6, <1>8, <1>10, AtStep DEF StampStep, Keeps
  <1>12. ReadAnswered([run EXCEPT !.answer = "ok"])
    <2>1. PICK next : next = [run EXCEPT !.answer = "ok"]
      OBVIOUS
    <2>2. next.read = run.read /\ next.answer = "ok" /\ next.stamp = run.stamp
          /\ next.asked = run.asked /\ next.got = run.got /\ next.sections = run.sections
      BY <1>10, <2>1 DEF Run
    <2>3. Unknown \notin run.asked /\ run.read # Nowhere
      <3>1. Unknown \notin runs[c].asked
        BY <1>1, AtStep DEF OnItsWay
      <3>2. runs[c].read # Nowhere
        BY <1>2 DEF ReadStillHolds
      <3> QED
        BY <1>10, <3>1, <3>2
    <2>4. ReadAnswered(next)
      BY <1>5, <1>10, <2>2, <2>3 DEF ReadAnswered
    <2> QED
      BY <2>1, <2>4
  <1>13. "ok" \in Answer \ {"none"}
    BY DEF Answer, Result
  <1> QED
    BY <1>1, <1>2, <1>3, <1>10, <1>11, <1>12, <1>13, EndsWith

LEMMA ServerStep ==
  ASSUME ServerInv, [ServerNext]_vars
  PROVE  ServerInv'
  <1>1. CASE UNCHANGED vars
    BY <1>1 DEF vars, serverVars, lifecycleVars, ServerInv, ServerTypeOK, SessionOK,
                RunOK, ReadStillHolds, Scope
  <1>2. CASE ServerNext
    BY <1>2, CallKeeps, ReturnKeeps, VerifyKeeps, AttachKeeps, ListKeeps, SelectKeeps,
       ReadKeeps, StatusKeeps, IntentKeeps, HistoryKeeps, PreflightKeeps, RecordedKeeps,
       NotRecordedKeeps, StampKeeps, WriteKeeps DEF ServerNext, Takes
  <1> QED
    BY <1>1, <1>2

LEMMA ServerStarts ==
  ASSUME ServerInit
  PROVE  ServerInv
  <1>1. Idle \in Run
    <2>1. Nowhere \in Origin /\ "preflight_environment" \in Tool /\ "none" \in Answer
      BY DEF Nowhere, Origin, Tool, Script, Answer
    <2>2. <<>> \in Seq(Range(Sections) \X {"ok", "not_readable"})
      OBVIOUS
    <2> QED
      BY <2>1, <2>2 DEF Idle, Run
  <1>2. ServerTypeOK
    BY <1>1 DEF ServerInit, Init, ServerTypeOK, NoSelections
  <1>3. SessionOK
    BY DEF ServerInit, Init, SessionOK, NoSelections, SelectionField, Stage
  <1>4. Idle.pc = 0
    BY DEF Idle
  <1> QED
    BY <1>2, <1>3, <1>4 DEF ServerInit, ServerInv

-----------------------------------------------------------------------------
(* Part 5: the theorems.                                                   *)

\* The lock is held from a tool's first step to its answer, and what its client has
\* read still is the session's: for any number of clients.
THEOREM ServerInvariant == ServerSpec => []ServerInv
  BY ServerStarts, ServerStep, PTL DEF ServerSpec

\* A run is always one the tools can be in.
THEOREM ServerTyped == ServerSpec => []ServerTypeOK
  <1>1. ServerInv => ServerTypeOK
    BY DEF ServerInv
  <1> QED
    BY <1>1, ServerInvariant, PTL

\* A read-out's stamp is of what it read, although it is taken by a second dispatch
\* and a third look at the session (serialization.py).
THEOREM StampsAreOfTheRead == ServerSpec => []StampIsOfTheRead
  <1>1. ServerInv => StampIsOfTheRead
    BY DEF ServerInv, StampIsOfTheRead, Idle, RunOK, ReadAnswered
  <1> QED
    BY <1>1, ServerInvariant, PTL

\* The assemblers' sentinels for a session that went or a selection that changed
\* between their two dispatches never fire.
THEOREM ReadsAreAnswered == ServerSpec => []ReadIsAnswered
  <1>1. ASSUME ServerInv, NEW c \in Client, runs[c].read # Nowhere, runs[c].answer # "none"
        PROVE  \/ runs[c].answer = "ok"
               \/ /\ runs[c].answer = "assembly_error"
                  /\ Script[runs[c].tool][runs[c].pc] = "record"
    <2>1. RunOK(runs[c])
      BY <1>1 DEF ServerInv, Idle
    <2>2. runs[c].tool \in Readers /\ ReadAnswered(runs[c])
      BY <1>1, <2>1 DEF RunOK
    <2>3. \A p \in {3, 5} : Script[runs[c].tool][p] = "record"
      BY <2>2, ReaderScript
    <2> QED
      BY <1>1, <2>2, <2>3 DEF ReadAnswered
  <1>2. ServerInv => ReadIsAnswered
    BY <1>1 DEF ReadIsAnswered
  <1> QED
    BY <1>2, ServerInvariant, PTL

\* An answered inspection has the sections asked for and no other, each once and in
\* the canonical order, and says of just those it read that it did: for any number of
\* sections.
THEOREM SectionsAreReported == ServerSpec => []EverySectionIsReported
  <1>1. ASSUME ServerInv, NEW c \in Client, runs[c].tool = "inspect_design", runs[c].answer = "ok"
        PROVE  LET out == runs[c].sections
               IN  /\ {out[i][1] : i \in DOMAIN out} = runs[c].asked
                   /\ \A i, j \in DOMAIN out : i < j => PlaceOf(out[i][1]) < PlaceOf(out[j][1])
                   /\ {out[i][1] : i \in {k \in DOMAIN out : out[k][2] = "ok"}} = runs[c].got
    <2> DEFINE out == runs[c].sections
               asked == runs[c].asked
               got == runs[c].got
    <2>1. RunOK(runs[c]) /\ runs[c] \in Run
      BY <1>1 DEF ServerInv, ServerTypeOK, Idle
    <2>2. ReadAnswered(runs[c]) /\ got \subseteq asked
      BY <1>1, <2>1 DEF RunOK, Readers
    <2>3. asked \subseteq Range(Sections)
      <3>1. Unknown \notin asked
        BY <1>1, <2>2 DEF ReadAnswered
      <3>2. asked \in SUBSET (Range(Sections) \union {Unknown})
        BY <2>1 DEF Run
      <3> QED
        BY <3>1, <3>2
    <2>4. out = InOrder(asked, got)
      BY <1>1, <2>2 DEF ReadAnswered, OrderedSections
    <2>5. InOrderUpTo(out, asked, got, Len(Sections))
      BY <2>4, InOrderIsInOrder
    <2>6. \A name \in asked : \E a \in DOMAIN out : out[a][1] = name
      <3>1. DOMAIN Sections = 1..Len(Sections)
        BY ServerAssumption
      <3> HIDE DEF out, asked, got
      <3> QED
        BY <2>3, <2>5, <3>1 DEF InOrderUpTo, Range
    <2> HIDE DEF out, asked, got
    <2>7. {out[i][1] : i \in DOMAIN out} = asked
      BY <2>5, <2>6 DEF InOrderUpTo
    <2>8. \A i \in DOMAIN out : out[i][2] = "ok" <=> out[i][1] \in got
      BY <2>5 DEF InOrderUpTo
    <2>9. {out[i][1] : i \in {k \in DOMAIN out : out[k][2] = "ok"}} = got
      BY <2>2, <2>6, <2>8
    <2>10. \A i, j \in DOMAIN out : i < j => PlaceOf(out[i][1]) < PlaceOf(out[j][1])
      BY <2>5 DEF InOrderUpTo
    <2> QED
      BY <2>7, <2>9, <2>10 DEF out, asked, got
  <1>2. ServerInv => EverySectionIsReported
    BY <1>1 DEF EverySectionIsReported, PlaceOf
  <1> QED
    BY <1>2, ServerInvariant, PTL

\* The second record of a tool call follows its first one in the log: no other
\* client's record comes between them.
THEOREM RecordsAreTogether == ServerSpec => RecordsOfACallAreTogether
  <1>1. ASSUME ServerInv, NEW c \in Client, runs[c].records = 1, runs'[c].records = 2
        PROVE  last = c
    BY <1>1 DEF ServerInv, Idle
  <1>2. ServerInv => [\A c \in Client :
                        (runs[c].records = 1 /\ runs'[c].records = 2) => last = c]_vars
    BY <1>1
  <1> QED
    BY <1>2, ServerInvariant, PTL DEF RecordsOfACallAreTogether
=============================================================================
