------------------------------- MODULE Broker -------------------------------
(***************************************************************************)
(* The broker's dispatch: the one way to a capability.  It captures the    *)
(* session's status, looks the name up, gates its tier, runs the handler,  *)
(* appends the audit record and only then answers.  The session is here    *)
(* what its status shows; the audit log is AuditLog's.  The process can    *)
(* crash between any two steps: the log stays, the session does not.       *)
(***************************************************************************)
EXTENDS AuditLog, SessionStatus

CONSTANTS
    Tier,         \* Tier[capability]: the registry's declared risk tier
    Unregistered, \* a name the registry does not hold
    Confirmations \* what the confirmer can answer

ASSUME BrokerAssumption ==
    /\ Tier \in [DOMAIN Tier -> {"safe", "medium", "high"}]
    /\ Unregistered \notin DOMAIN Tier
    /\ Confirmations \subseteq BOOLEAN

VARIABLES
    at,                 \* where the dispatch is
    call,               \* the dispatch: what its record will say, and what ran
    before,             \* the status captured before it
    entries,            \* entries[n]: the n-th dispatch to reach the log
    settled, since,     \* the health the last of them left, and which one made it so
    answers             \* answers[n]: what its caller got

brokerVars == <<health, lostCause, at, call, before, entries, settled, since, answers>>
vars == <<logVars, brokerVars>>

Capability == DOMAIN Tier
\* "ok" stands for cannot_evaluate too: both are answers of a handler that ran.
Outcome == {"ok", "refused_by_gate", "typed_error", "unknown_capability"}
Degraded == {"yes", "no", "inapplicable"}

\* A dispatch: name, outcome and session_degraded go to the record; ran and
\* confirmed are what happened.
Call == [name : Capability \union {Unregistered}, outcome : Outcome \union {"none"},
         degraded : Degraded, ran : BOOLEAN, confirmed : BOOLEAN]

Answer == {"none", "result", "raised", "audit_failure", "sink_raised"}

BrokerTypeOK ==
    /\ health \in Health
    /\ lostCause \in LostCause \union {"none"}
    /\ at \in {"idle", "confirm", "handler", "audit", "append"}
    /\ call \in Call
    /\ before \in 0..2
    /\ entries \in Seq(Call)
    /\ settled \in Health
    /\ since \in Nat
    /\ answers \in Seq(Answer)

NoCall == [name |-> Unregistered, outcome |-> "none", degraded |-> "inapplicable",
           ran |-> FALSE, confirmed |-> FALSE]

BrokerInit ==
    /\ AuditInit
    /\ StatusInit
    /\ at = "idle"
    /\ call = NoCall
    /\ before = 0
    /\ settled = "DETACHED" /\ since = 0
    /\ entries = <<>> /\ answers = <<>>

-----------------------------------------------------------------------------
(* The session, as get_session_status shows it.                            *)

\* lost_cause of the status: LOST always has one, "unverifiable" if no other.
StatusCause ==
    IF health # "LOST" THEN "none"
    ELSE IF lostCause \in LostCause THEN lostCause ELSE "unverifiable"

\* Mutant: the rank reads the session's own cause.
HealthRankOfCause ==
    IF lostCause # "none" THEN 2 ELSE IF health = "SUSPECT" THEN 1 ELSE 0

HealthRank ==
    IF StatusCause # "none" THEN 2 ELSE IF health = "SUSPECT" THEN 1 ELSE 0

-----------------------------------------------------------------------------
(* dispatch                                                                *)

\* The status before, the registry, and the tier's gate.
Dispatch(name) ==
    LET c == [NoCall EXCEPT !.name = name]
        Refused == [c EXCEPT !.outcome = "refused_by_gate"]
    IN  /\ at = "idle"
        /\ Len(kinds) < MaxRecords
        /\ before' = HealthRank
        /\ \/ /\ name = Unregistered
              /\ call' = [c EXCEPT !.outcome = "unknown_capability"]
              /\ at' = "audit"
           \/ /\ name \in Capability
              /\ Tier[name] = "high" /\ call' = Refused /\ at' = "audit"
           \/ /\ name \in Capability
              /\ Tier[name] = "medium" /\ call' = c /\ at' = "confirm"
           \/ /\ name \in Capability
              /\ Tier[name] = "safe" /\ call' = c /\ at' = "handler"
        /\ UNCHANGED <<logVars, health, lostCause, entries, settled, since, answers>>

\* Mutant: a refused confirmation is not looked at.
ConfirmIgnored ==
    /\ at = "confirm"
    /\ at' = "handler"
    /\ \E granted \in Confirmations : call' = [call EXCEPT !.confirmed = granted]
    /\ UNCHANGED <<logVars, health, lostCause, before, entries, settled, since, answers>>

Confirm ==
    /\ at = "confirm"
    /\ \E granted \in Confirmations :
        IF granted
          THEN call' = [call EXCEPT !.confirmed = TRUE] /\ at' = "handler"
          ELSE call' = [call EXCEPT !.outcome = "refused_by_gate"] /\ at' = "audit"
    /\ UNCHANGED <<logVars, health, lostCause, before, entries, settled, since, answers>>

\* The handler runs, with every effect it has on the session, and returns a
\* value classify_outcome maps, or raises.  Only then is the health compared.
Handle ==
    /\ at = "handler"
    /\ MoveSession
    /\ \E outcome \in {"ok", "refused_by_gate", "typed_error"} :
        call' = [call EXCEPT
                    !.outcome = outcome,
                    !.ran = TRUE,
                    !.degraded = IF HealthRank' > before THEN "yes" ELSE "no"]
    /\ at' = "audit"
    /\ UNCHANGED <<logVars, before, entries, settled, since, answers>>

\* The sink: it looks at the tail, then appends.
Audit ==
    /\ at = "audit"
    /\ \E kind \in Kind : CheckTail(kind)
    /\ entries' = Append(entries, call)
    /\ settled' = health
    /\ since' = IF health = settled THEN since ELSE Len(entries')
    /\ answers' = Append(answers, "none")
    /\ at' = "append"
    /\ UNCHANGED <<health, lostCause, call, before>>

\* dispatch returns, and its local state is gone.
Forget == at' = "idle" /\ call' = NoCall /\ before' = 0

AnswerWith(answer) ==
    /\ Forget
    /\ answers' = [answers EXCEPT ![Len(answers)] = answer]
    /\ UNCHANGED <<health, lostCause, entries, settled, since>>

Recorded ==
    /\ at = "append"
    /\ Write
    /\ AnswerWith(IF call.outcome = "typed_error" THEN "raised" ELSE "result")

\* Mutant: a failing sink is only logged, and the result goes out.
NotRecordedButReturned ==
    /\ at = "append"
    /\ WriteFails
    /\ AnswerWith(IF call.outcome = "typed_error" THEN "raised" ELSE "result")

\* The sink raised: the result is withheld; on the exception path the sink's
\* own error goes out in place of the handler's.
NotRecorded ==
    /\ at = "append"
    /\ WriteFails
    /\ AnswerWith(IF call.outcome = "typed_error" THEN "sink_raised" ELSE "audit_failure")

\* The process ends, perhaps in the middle of the append, and another starts:
\* no caller gets an answer, and the new session is detached.
Crash ==
    /\ at # "idle"
    /\ IF at = "append" THEN WriteFails ELSE UNCHANGED logVars
    /\ health' = "DETACHED" /\ lostCause' = "none" /\ settled' = "DETACHED" /\ since' = 0
    /\ Forget
    /\ UNCHANGED <<entries, answers>>

BrokerNext ==
    \/ \E name \in Capability \union {Unregistered} : Dispatch(name)
    \/ Confirm
    \/ Handle
    \/ Audit \/ Recorded \/ NotRecorded
    \/ Crash

BrokerSpec == BrokerInit /\ [][BrokerNext]_vars

-----------------------------------------------------------------------------
(* Properties.                                                             *)

\* "An unaudited operation is never reported as a clean one" (AuditFailure): the
\* record of what a caller got as the dispatch's own answer is kept, on a line of
\* its own that a read returns or names, whatever was torn or crashed before it or
\* since; a record that is not was never answered but by a failure.
AnsweredIsAudited ==
    \A n \in DOMAIN answers : answers[n] \in {"result", "raised"} => IsKept(n)

\* A high-tier handler never runs, and a medium-tier one only when this very
\* dispatch was confirmed; and the log says which handlers did not run.
OnlyGatedCallsRun ==
    \A c \in {call} \union {entries[n] : n \in DOMAIN entries} :
        /\ c.ran => /\ c.name \in Capability
                    /\ Tier[c.name] # "high"
                    /\ Tier[c.name] = "medium" => c.confirmed
        /\ (~c.ran /\ c.outcome # "none")
                => c.outcome \in {"refused_by_gate", "unknown_capability"}

\* session_degraded is a delta over a rank: when a session is suspect or lost
\* between two calls, the call that made it so is on record as degrading it, or
\* its caller was told that there is no record.
WorseningIsOnRecord ==
    (at = "idle" /\ health \in {"SUSPECT", "LOST"}) =>
        /\ since \in DOMAIN entries
        /\ entries[since].degraded = "yes"
        /\ IsKept(since) \/ answers[since] \in {"audit_failure", "sink_raised"}
=============================================================================
