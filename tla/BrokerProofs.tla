---------------------------- MODULE BrokerProofs ----------------------------
(***************************************************************************)
(* A dispatch's own answer never goes out without its record, a handler    *)
(* never runs that its tier's gate did not let through, and a session that *)
(* got worse did so on record; for every registry, every length of log and *)
(* text of a record, every failure and crash.                              *)
(***************************************************************************)
EXTENDS Broker, AuditLogProofs

-----------------------------------------------------------------------------
(* The gates.                                                              *)

\* What a dispatch may have done.
GatedCall(c) ==
    /\ c.ran => /\ c.name \in Capability
                /\ Tier[c.name] # "high"
                /\ Tier[c.name] = "medium" => c.confirmed
    /\ (~c.ran /\ c.outcome # "none")
            => c.outcome \in {"refused_by_gate", "unknown_capability"}

GateInv ==
    /\ call \in Call /\ GatedCall(call)
    /\ entries \in Seq(Call)
    /\ \A n \in DOMAIN entries : GatedCall(entries[n])
    /\ at \in {"confirm", "handler"} => call.name \in Capability
    /\ at = "confirm" => Tier[call.name] = "medium"
    /\ at = "handler" => /\ Tier[call.name] # "high"
                         /\ Tier[call.name] = "medium" => call.confirmed

\* The empty call counts as gated: nothing is running.
LEMMA NoCallIsGated == NoCall \in Call /\ GatedCall(NoCall)
  BY BrokerAssumption DEF NoCall, Call, GatedCall, Outcome, Degraded

\* Every step of a dispatch keeps to the gates.
LEMMA GateStep ==
  ASSUME GateInv, [BrokerNext]_vars
  PROVE  GateInv'
  <1>1. ASSUME NEW name \in Capability \union {Unregistered}, Dispatch(name)
        PROVE  GateInv'
    <2>1. entries' = entries
      BY <1>1 DEF Dispatch
    <2>2. [NoCall EXCEPT !.name = name] \in Call
      BY DEF NoCall, Call, Outcome, Degraded
    <2>3. /\ call' \in Call /\ call'.name = name /\ call'.ran = FALSE
          /\ GatedCall(call')
      BY <1>1, <2>2, BrokerAssumption
      DEF Dispatch, NoCall, Call, GatedCall, Outcome, Degraded
    <2>4. /\ at' \in {"confirm", "handler"} => name \in Capability
          /\ at' = "confirm" => Tier[name] = "medium"
          /\ at' = "handler" => Tier[name] = "safe"
      BY <1>1 DEF Dispatch
    <2> QED
      BY <2>1, <2>3, <2>4 DEF GateInv, GatedCall, Capability
  <1>2. CASE Confirm
    <2>1. call \in Call /\ call.ran \in BOOLEAN /\ GatedCall(call) /\ at = "confirm"
      BY <1>2 DEF GateInv, Confirm, Call
    <2>2. entries' = entries
      BY <1>2 DEF Confirm
    <2>3. \/ call' = [call EXCEPT !.confirmed = TRUE] /\ at' = "handler"
          \/ call' = [call EXCEPT !.outcome = "refused_by_gate"] /\ at' = "audit"
      BY <1>2 DEF Confirm
    <2>4. call' \in Call /\ GatedCall(call')
      BY <2>1, <2>3 DEF Call, GatedCall, Outcome
    <2>5. /\ call'.name = call.name
          /\ at' = "handler" => call'.confirmed
          /\ at' # "confirm"
      BY <2>1, <2>3 DEF Call
    <2> QED
      BY <2>1, <2>2, <2>4, <2>5 DEF GateInv, GatedCall, Capability
  <1>3. CASE Handle
    <2>1. call \in Call /\ at = "handler" /\ at' = "audit" /\ entries' = entries
      BY <1>3 DEF GateInv, Handle
    <2>2. PICK outcome \in {"ok", "refused_by_gate", "typed_error"},
               degraded \in Degraded :
            call' = [call EXCEPT !.outcome = outcome, !.ran = TRUE, !.degraded = degraded]
      BY <1>3 DEF Handle, Degraded
    <2>3. call' \in Call /\ GatedCall(call')
      BY <2>1, <2>2 DEF GateInv, Call, GatedCall, Outcome, Degraded
    <2> QED
      BY <2>1, <2>3 DEF GateInv, GatedCall, Capability
  <1>4. CASE Audit
    <2>1. call' = call /\ at' = "append" /\ entries' = Append(entries, call)
      BY <1>4 DEF Audit
    <2>2. entries' \in Seq(Call)
      BY <2>1 DEF GateInv
    <2>3. \A n \in DOMAIN entries' : entries'[n] = call \/ (n \in DOMAIN entries /\ entries'[n] = entries[n])
      BY <2>1 DEF GateInv
    <2> QED
      BY <2>1, <2>2, <2>3 DEF GateInv, GatedCall, Capability
  <1>5. ASSUME at' = "idle", call' = NoCall, entries' = entries
        PROVE  GateInv'
    BY <1>5, NoCallIsGated DEF GateInv, GatedCall, Capability
  <1>6. CASE Recorded \/ NotRecorded
    BY <1>5, <1>6 DEF Recorded, NotRecorded, AnswerWith, Forget
  <1>7. CASE Crash
    BY <1>5, <1>7 DEF Crash, Forget
  <1>8. CASE UNCHANGED vars
    BY <1>8 DEF vars, brokerVars, GateInv, GatedCall, Capability
  <1> QED
    BY <1>1, <1>2, <1>3, <1>4, <1>6, <1>7, <1>8 DEF BrokerNext

\* High-tier handlers never run and medium-tier ones only when confirmed,
\* whatever is registered.
THEOREM GatesAreKept ==
  BrokerSpec => []OnlyGatedCallsRun
  <1>1. BrokerInit => GateInv
    BY NoCallIsGated DEF BrokerInit, GateInv, GatedCall
  <1>2. GateInv /\ [BrokerNext]_vars => GateInv'
    BY GateStep
  <1>3. GateInv => OnlyGatedCallsRun
    BY DEF GateInv, GatedCall, OnlyGatedCallsRun
  <1> QED
    BY <1>1, <1>2, <1>3, PTL DEF BrokerSpec

-----------------------------------------------------------------------------
(* Answers and the log.                                                    *)

AuditInv ==
    /\ LogInv
    /\ answers \in Seq(Answer) /\ Len(answers) = Len(kinds)
    /\ \A n \in DOMAIN answers :
          answers[n] \in {"result", "raised"} => n \in acknowledged

\* Nothing is answered or recorded yet.
LEMMA AuditInitially ==
  ASSUME BrokerInit
  PROVE  AuditInv
  <1>1. LogInv
    BY LogInitially DEF BrokerInit
  <1>2. answers = <<>> /\ kinds = <<>>
    BY DEF BrokerInit, AuditInit
  <1> QED
    BY <1>1, <1>2 DEF AuditInv

\* Steps of a dispatch are steps of the log, or none.
LEMMA BrokerStepsTheLog ==
  ASSUME [BrokerNext]_vars
  PROVE  [AuditNext]_logVars
  BY DEF BrokerNext, Dispatch, Confirm, Handle, Audit, Recorded, NotRecorded,
     Crash, vars, AuditNext

\* The record of this dispatch is the last one issued.
LEMMA AuditStep ==
  ASSUME AuditInv, [BrokerNext]_vars
  PROVE  AuditInv'
  <1>1. LogInv /\ LogInv'
    BY BrokerStepsTheLog, LogStep DEF AuditInv
  <1>2. kinds \in Seq(Kind)
    BY <1>1 DEF LogInv, AuditTypeOK
  <1>3. ASSUME UNCHANGED <<logVars, answers>> PROVE AuditInv'
    BY <1>1, <1>3 DEF AuditInv, logVars
  <1>4. CASE Audit
    <2>1. PICK kind \in Kind : CheckTail(kind)
      BY <1>4 DEF Audit
    <2>2. /\ kinds' = Append(kinds, kind) /\ Len(kinds') = Len(kinds) + 1
          /\ acknowledged' = acknowledged
          /\ answers' = Append(answers, "none")
      BY <1>2, <1>4, <2>1 DEF CheckTail, Audit
    <2>3. answers' \in Seq(Answer) /\ Len(answers') = Len(kinds')
      BY <2>2 DEF AuditInv, Answer
    <2>4. \A n \in DOMAIN answers' :
              answers'[n] = "none" \/ (n \in DOMAIN answers /\ answers'[n] = answers[n])
      BY <2>2 DEF AuditInv
    <2> QED
      BY <1>1, <2>2, <2>3, <2>4 DEF AuditInv
  <1>5. ASSUME EndAppend, acknowledged \subseteq acknowledged',
               \/ answers' = answers
               \/ \E a \in Answer : /\ answers' = [answers EXCEPT ![Len(answers)] = a]
                                    /\ a \in {"result", "raised"} => rec \in acknowledged'
        PROVE  AuditInv'
    <2>1. rec = Len(answers) /\ Len(answers) = Len(kinds)
      BY <1>1 DEF AuditInv, rec
    <2>2. kinds' = kinds
      BY <1>5 DEF EndAppend
    <2>3. answers' \in Seq(Answer) /\ Len(answers') = Len(answers)
      BY <1>5 DEF AuditInv
    <2>4. \A n \in DOMAIN answers' :
              answers'[n] \in {"result", "raised"} => n \in acknowledged'
      BY <1>5, <2>1 DEF AuditInv
    <2> QED
      BY <1>1, <2>1, <2>2, <2>3, <2>4 DEF AuditInv
  <1>6. CASE Recorded
    BY <1>5, <1>6 DEF Recorded, Write, AnswerWith, Answer
  <1>7. CASE NotRecorded
    BY <1>5, <1>7 DEF NotRecorded, WriteFails, AnswerWith, Answer
  <1>8. CASE Crash
    <2>1. CASE at = "append"
      BY <1>5, <1>8, <2>1 DEF Crash, WriteFails
    <2>2. CASE at # "append"
      BY <1>3, <1>8, <2>2 DEF Crash
    <2> QED
      BY <2>1, <2>2
  <1>9. ASSUME NEW name \in Capability \union {Unregistered}, Dispatch(name)
        PROVE  AuditInv'
    BY <1>3, <1>9 DEF Dispatch
  <1>10. CASE Confirm \/ Handle
    BY <1>3, <1>10 DEF Confirm, Handle
  <1>11. CASE UNCHANGED vars
    BY <1>1, <1>11 DEF vars, brokerVars, logVars, AuditInv
  <1> QED
    BY <1>4, <1>6, <1>7, <1>8, <1>9, <1>10, <1>11 DEF BrokerNext

\* No caller has a dispatch's own answer, a result or a handler's exception, whose
\* record is not kept on a line of its own, which a read returns or names: whatever
\* the text of the records, whatever lines were torn before or since, and whenever
\* the process crashed.
THEOREM AnswersAreAudited ==
  BrokerSpec => []AnsweredIsAudited
  <1>1. BrokerInit => AuditInv
    BY AuditInitially
  <1>2. AuditInv /\ [BrokerNext]_vars => AuditInv'
    BY AuditStep
  <1>3. AuditInv => AnsweredIsAudited
    BY LogInvReads DEF AuditInv, AnsweredIsAudited
  <1> QED
    BY <1>1, <1>2, <1>3, PTL DEF BrokerSpec

-----------------------------------------------------------------------------
(* The session's status, and what the records say of it.                   *)

\* The rank that session_degraded compares.
RankOf(h) == IF h = "LOST" THEN 2 ELSE IF h = "SUSPECT" THEN 1 ELSE 0

\* A lost session's status always has a cause, so the rank is the health's alone.
LEMMA RankIsOfHealth ==
  HealthRank = RankOf(health) /\ HealthRank' = RankOf(health')
  BY DEF HealthRank, StatusCause, LostCause, RankOf

\* No operation makes a session suspect or lost without raising its rank.
LEMMA WorseIsARankUp ==
  ASSUME NEW h \in Health, NEW k \in Moves[h], k \in {"SUSPECT", "LOST"}, k # h
  PROVE  RankOf(k) > RankOf(h)
  BY DEF Health, Moves, RankOf

\* A session operation leaves a health, and a cause if it is one.
LEMMA SessionTyped ==
  ASSUME health \in Health, MoveSession, lostCause \in LostCause \union {"none"}
  PROVE  health' \in Health /\ lostCause' \in LostCause \union {"none"}
  BY DEF Health, MoveSession, Moves, LostCause

\* An answer in place of the last one is an answer.
LEMMA LastReplaced ==
  ASSUME NEW S, NEW s \in Seq(S), NEW a \in S
  PROVE  [s EXCEPT ![Len(s)] = a] \in Seq(S)
  <1> DEFINE t == [s EXCEPT ![Len(s)] = a]
  <1>1. t = [n \in 1..Len(s) |-> IF n = Len(s) THEN a ELSE s[n]]
    OBVIOUS
  <1>2. \A n \in 1..Len(s) : (IF n = Len(s) THEN a ELSE s[n]) \in S
    OBVIOUS
  <1>3. Len(s) \in Nat
    OBVIOUS
  <1> HIDE DEF t
  <1>4. t \in [1..Len(s) -> S]
    BY <1>1, <1>2
  <1>5. t \in Seq(S)
    BY <1>3, <1>4
  <1> QED
    BY <1>5 DEF t

\* The steps of a dispatch keep to their types.
LEMMA TypeStep ==
  ASSUME GateInv, GateInv', BrokerTypeOK, [BrokerNext]_vars
  PROVE  BrokerTypeOK'
  <1>1. /\ call' \in Call /\ entries' \in Seq(Call) /\ Len(entries') \in Nat
        /\ HealthRank \in 0..2
    BY RankIsOfHealth DEF GateInv, RankOf
  <1>2. ASSUME NEW name \in Capability \union {Unregistered}, Dispatch(name)
        PROVE  BrokerTypeOK'
    BY <1>1, <1>2 DEF Dispatch, BrokerTypeOK
  <1>3. CASE Confirm
    BY <1>1, <1>3 DEF Confirm, BrokerTypeOK
  <1>4. CASE Handle
    <2>1. health' \in Health /\ lostCause' \in LostCause \union {"none"}
      BY <1>4, SessionTyped DEF Handle, BrokerTypeOK
    <2> QED
      BY <1>1, <1>4, <2>1 DEF Handle, BrokerTypeOK
  <1>5. CASE Audit
    <2>1. answers' \in Seq(Answer)
      BY <1>5 DEF Audit, BrokerTypeOK, Answer
    <2>2. settled' \in Health /\ since' \in Nat
      BY <1>1, <1>5 DEF Audit, BrokerTypeOK
    <2> QED
      BY <1>1, <1>5, <2>1, <2>2 DEF Audit, BrokerTypeOK
  <1>6. CASE Recorded \/ NotRecorded
    <2>1. PICK a \in Answer : AnswerWith(a)
      BY <1>6 DEF Recorded, NotRecorded, Answer
    <2>2. answers' \in Seq(Answer)
      BY <2>1, LastReplaced DEF AnswerWith, BrokerTypeOK
    <2> QED
      BY <1>1, <2>1, <2>2 DEF AnswerWith, Forget, BrokerTypeOK
  <1>7. CASE Crash
    BY <1>1, <1>7 DEF Crash, Forget, BrokerTypeOK, Health
  <1>8. CASE UNCHANGED vars
    BY <1>8 DEF vars, brokerVars, BrokerTypeOK
  <1> QED
    BY <1>2, <1>3, <1>4, <1>5, <1>6, <1>7, <1>8 DEF BrokerNext

\* Before the first dispatch nothing is running.
LEMMA BrokerInitially == BrokerInit => GateInv /\ BrokerTypeOK
  BY NoCallIsGated
  DEF BrokerInit, StatusInit, GateInv, GatedCall, BrokerTypeOK, Health, LostCause, Answer

\* The broker's state keeps to its types, whatever is registered.
THEOREM BrokerTyped == BrokerSpec => []BrokerTypeOK
  <1>1. GateInv /\ BrokerTypeOK /\ [BrokerNext]_vars => (GateInv /\ BrokerTypeOK)'
    BY GateStep, TypeStep
  <1> QED
    BY <1>1, BrokerInitially, PTL DEF BrokerSpec

\* The caller of the n-th dispatch knows whether there is a record of it.
Told(n) == n \in acknowledged \/ answers[n] \in {"audit_failure", "sink_raised"}

\* The invariant of the degradation record: between dispatches the health is the one
\* the last of them left, a handler's is one move from it and compared with it, and a
\* bad one was put on record by the dispatch that made it so.
DegradationInv ==
    /\ Len(entries) = Len(answers)
    /\ at # "audit" => health = settled
    /\ at \in {"confirm", "handler"} => before = RankOf(settled)
    /\ at = "audit" =>
          \/ health = settled
          \/ /\ health \in Moves[settled]
             /\ call.degraded = (IF RankOf(health) > RankOf(settled) THEN "yes" ELSE "no")
    /\ settled \in {"SUSPECT", "LOST"} =>
          /\ since \in DOMAIN entries
          /\ entries[since].degraded = "yes"
          /\ Told(since) \/ (at = "append" /\ since = Len(entries))

\* The end of the append tells the caller of the last dispatch.
LEMMA AppendTells ==
  ASSUME AuditInv, BrokerTypeOK, DegradationInv, Recorded \/ NotRecorded
  PROVE  DegradationInv'
  <1>1. PICK a \in Answer : AnswerWith(a) /\ (a \in {"audit_failure", "sink_raised"}
                                                \/ rec \in acknowledged')
    BY DEF Recorded, NotRecorded, Answer, Write
  <1>2. /\ at = "append" /\ step = "write"
        /\ acknowledged \subseteq acknowledged'
    BY DEF Recorded, NotRecorded, Write, WriteFails
  <1>3. /\ rec = Len(answers) /\ Len(answers) = Len(entries)
        /\ answers \in Seq(Answer) /\ entries \in Seq(Call) /\ Len(entries) \in Nat
    BY <1>2 DEF AuditInv, BrokerTypeOK, DegradationInv, rec
  <1>4. /\ answers' = [answers EXCEPT ![Len(answers)] = a]
        /\ at' = "idle" /\ health' = health /\ settled' = settled
        /\ since' = since /\ entries' = entries
    BY <1>1 DEF AnswerWith, Forget
  <1>5. Len(entries') = Len(answers')
    BY <1>3, <1>4
  <1>6. ASSUME settled' \in {"SUSPECT", "LOST"}
        PROVE  since' \in DOMAIN entries' /\ entries'[since'].degraded = "yes" /\ Told(since)'
    <2>1. /\ since \in DOMAIN entries /\ entries[since].degraded = "yes"
          /\ Told(since) \/ since = Len(entries)
      BY <1>4, <1>6 DEF DegradationInv
    <2>2. since \in 1..Len(answers)
      BY <1>3, <2>1
    <2>3. CASE since = Len(answers)
      <3>1. answers'[since] = a
        BY <1>3, <1>4, <2>2, <2>3
      <3> QED
        BY <1>1, <1>3, <1>4, <2>1, <2>3, <3>1 DEF Told
    <2>4. CASE since # Len(answers)
      <3>1. answers'[since] = answers[since]
        BY <1>3, <1>4, <2>2, <2>4
      <3> QED
        BY <1>2, <1>3, <1>4, <2>1, <2>4, <3>1 DEF Told
    <2> QED
      BY <2>3, <2>4
  <1> QED
    BY <1>2, <1>4, <1>5, <1>6 DEF DegradationInv

\* The record of a dispatch says whether it made the session worse.
LEMMA AuditSays ==
  ASSUME AuditInv, BrokerTypeOK, DegradationInv, Audit
  PROVE  DegradationInv'
  <1>1. /\ at = "audit" /\ at' = "append" /\ health' = health /\ settled' = health
        /\ entries' = Append(entries, call) /\ answers' = Append(answers, "none")
        /\ since' = IF health = settled THEN since ELSE Len(entries')
    BY DEF Audit
  <1>2. acknowledged' = acknowledged
    BY DEF Audit, CheckTail
  <1>3. /\ entries \in Seq(Call) /\ answers \in Seq(Answer) /\ call \in Call
        /\ health \in Health /\ settled \in Health
        /\ Len(entries) = Len(answers) /\ Len(entries) \in Nat
    BY DEF BrokerTypeOK, DegradationInv
  <1>4. /\ Len(entries') = Len(entries) + 1 /\ Len(answers') = Len(answers) + 1
        /\ DOMAIN entries' = 1..(Len(entries) + 1)
        /\ entries'[Len(entries) + 1] = call
        /\ \A n \in 1..Len(entries) : entries'[n] = entries[n] /\ answers'[n] = answers[n]
        /\ DOMAIN entries = 1..Len(entries)
    BY <1>1, <1>3
  <1>5. ASSUME health \in {"SUSPECT", "LOST"}
        PROVE  /\ since' \in DOMAIN entries' /\ entries'[since'].degraded = "yes"
               /\ Told(since)' \/ since' = Len(entries')
    <2>1. CASE health = settled
      <3>1. /\ since' = since /\ since \in 1..Len(entries) /\ entries[since].degraded = "yes"
            /\ Told(since)
        BY <1>1, <1>4, <1>5, <2>1 DEF DegradationInv
      <3>2. Told(since)'
        BY <1>2, <1>4, <3>1 DEF Told
      <3> QED
        BY <1>3, <1>4, <3>1, <3>2
    <2>2. CASE health # settled
      <3>1. /\ health \in Moves[settled]
            /\ call.degraded = (IF RankOf(health) > RankOf(settled) THEN "yes" ELSE "no")
        BY <1>1, <2>2 DEF DegradationInv
      <3>2. call.degraded = "yes"
        BY <1>3, <1>5, <2>2, <3>1, WorseIsARankUp
      <3>3. since' = Len(entries')
        BY <1>1, <2>2
      <3>4. since' \in DOMAIN entries' /\ entries'[since'] = call
        BY <1>3, <1>4, <3>3
      <3> QED
        BY <3>2, <3>3, <3>4
    <2> QED
      BY <2>1, <2>2
  <1> QED
    BY <1>1, <1>3, <1>4, <1>5 DEF DegradationInv

LEMMA DegradationStep ==
  ASSUME AuditInv, BrokerTypeOK, DegradationInv, [BrokerNext]_vars
  PROVE  DegradationInv'
  <1>1. ASSUME UNCHANGED <<acknowledged, answers, entries, settled, since>>, at # "append",
               at' # "append",
               at' # "audit" => health' = settled,
               at' \in {"confirm", "handler"} => before' = RankOf(settled),
               at' = "audit" =>
                  \/ health' = settled
                  \/ /\ health' \in Moves[settled]
                     /\ call'.degraded = (IF RankOf(health') > RankOf(settled) THEN "yes" ELSE "no")
        PROVE  DegradationInv'
    BY <1>1 DEF DegradationInv, Told
  <1>2. ASSUME NEW name \in Capability \union {Unregistered}, Dispatch(name)
        PROVE  DegradationInv'
    <2>1. health' = health /\ health = settled /\ before' = RankOf(health)
      BY <1>2, RankIsOfHealth DEF Dispatch, DegradationInv
    <2>2. UNCHANGED <<acknowledged, answers, entries, settled, since>>
      BY <1>2 DEF Dispatch, logVars
    <2>3. at # "append" /\ at' # "append"
      BY <1>2 DEF Dispatch
    <2> QED
      BY <1>1, <2>1, <2>2, <2>3
  <1>3. CASE Confirm
    <2>1. /\ UNCHANGED <<acknowledged, answers, entries, settled, since, health, before>>
          /\ at = "confirm" /\ at' \in {"handler", "audit"}
      BY <1>3 DEF Confirm, logVars
    <2>2. health = settled /\ before = RankOf(settled)
      BY <2>1 DEF DegradationInv
    <2> QED
      BY <1>1, <2>1, <2>2
  <1>4. CASE Handle
    <2>1. /\ UNCHANGED <<acknowledged, answers, entries, settled, since>>
          /\ at = "handler" /\ at' = "audit" /\ health' \in Moves[health]
      BY <1>4 DEF Handle, MoveSession, logVars
    <2>2. health = settled /\ before = RankOf(settled)
      BY <2>1 DEF DegradationInv
    <2>3. call'.degraded = (IF RankOf(health') > RankOf(settled) THEN "yes" ELSE "no")
      <3>1. PICK outcome \in {"ok", "refused_by_gate", "typed_error"} :
               call' = [call EXCEPT !.outcome = outcome, !.ran = TRUE,
                           !.degraded = IF HealthRank' > before THEN "yes" ELSE "no"]
        BY <1>4 DEF Handle
      <3> QED
        BY <2>2, <3>1, RankIsOfHealth DEF BrokerTypeOK, Call
    <2> QED
      BY <1>1, <2>1, <2>2, <2>3
  <1>5. CASE Crash
    BY <1>5 DEF Crash, Forget, DegradationInv
  <1>6. CASE UNCHANGED vars
    BY <1>6 DEF vars, brokerVars, logVars, DegradationInv, Told
  <1> QED
    BY <1>2, <1>3, <1>4, <1>5, <1>6, AuditSays, AppendTells DEF BrokerNext

\* When a session is suspect or lost between two calls, the call that made it so is on
\* record as degrading it, on a line of its own that a read returns or names, or its
\* caller was told that there is none: for every registry, text, sink failure, torn
\* line and crash.
THEOREM WorseningIsRecorded ==
  BrokerSpec => []WorseningIsOnRecord
  <1> DEFINE Inv == AuditInv /\ GateInv /\ BrokerTypeOK /\ DegradationInv
  <1>1. BrokerInit => Inv
    <2>1. BrokerInit => AuditInv
      BY AuditInitially
    <2>2. BrokerInit => DegradationInv
      BY DEF BrokerInit, StatusInit, DegradationInv
    <2> QED
      BY <2>1, <2>2, BrokerInitially
  <1>2. Inv /\ [BrokerNext]_vars => Inv'
    BY AuditStep, GateStep, TypeStep, DegradationStep
  <1>3. Inv => WorseningIsOnRecord
    <2> SUFFICES ASSUME Inv, at = "idle", health \in {"SUSPECT", "LOST"}
                 PROVE  /\ since \in DOMAIN entries /\ entries[since].degraded = "yes"
                        /\ \/ IsKept(since)
                           \/ answers[since] \in {"audit_failure", "sink_raised"}
      BY DEF WorseningIsOnRecord
    <2>1. /\ since \in DOMAIN entries /\ entries[since].degraded = "yes" /\ Told(since)
      BY DEF DegradationInv
    <2>2. \A n \in acknowledged : IsKept(n)
      BY LogInvReads DEF AuditInv
    <2> QED
      BY <2>1, <2>2 DEF Told
  <1> QED
    BY <1>1, <1>2, <1>3, PTL DEF BrokerSpec
=============================================================================
