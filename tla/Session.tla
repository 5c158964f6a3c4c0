------------------------------- MODULE Session ------------------------------
(***************************************************************************)
(* The AEDT session: its lifecycle DETACHED / ATTACHED / SUSPECT / LOST,   *)
(* the selection chain it owns, and the protocol that re-verifies a        *)
(* SUSPECT session before the next operation.  Requests come one at a time *)
(* (the server holds one lock around every tool call); the adapter's       *)
(* abandoned workers run beside them.  Each request is a sequence of       *)
(* adapter calls: control is at pc, the adapter call it waits for is in    *)
(* Adapter's variable call.                                                *)
(***************************************************************************)
EXTENDS Adapter

CONSTANTS
    LateOrphans  \* FALSE: callers send no request while a worker runs on

ASSUME SessionAssumption == LateOrphans \in BOOLEAN

VARIABLES
    health, chain, lastProcessId, lostCause, environment, \* _SessionState
    justVerified,  \* Session._just_verified
    pc,            \* where the request being served is
    request,       \* the request being served
    stage,         \* the stage _verify or _resync_adapter is at
    token,         \* the option _present_choice found to select it again with
    served         \* the last read served and the stamp it was served under

sessionState == <<health, chain, lastProcessId, lostCause, environment>>
control == <<pc, request, stage, token, justVerified>>
vars == <<adapterVars, sessionState, control, served>>

Health == {"DETACHED", "ATTACHED", "SUSPECT", "LOST"}
LostCause == {"crash", "disconnect"}
PC == {"idle", "attach", "verify_list", "verify_select", "resync", "body"}
Verifying == {"verify_list", "verify_select", "resync"}

Request == [op : Op, stage : Stage, choice : Name \union {None}]
NoRequest == [op |-> "none", stage |-> "project", choice |-> None]

\* A design read that succeeded: the process, project and design it came from,
\* the selection and the environment provenance names, and whether the request
\* re-verified the session first.
Served == [process : Process \union {None}, project : Value, design : Value,
           stamp : Chain, environment : Process \union {None},
           verified : BOOLEAN]
NotServed == [process |-> None, project |-> None, design |-> None,
              stamp |-> EmptyChain, environment |-> None, verified |-> FALSE]

TypeOK ==
    /\ AdapterTypeOK
    /\ health \in Health
    /\ chain \in Chain
    /\ lastProcessId \in Process \union {None}
    /\ lostCause \in LostCause \union {"none"}
    /\ environment \in Process \union {None}
    /\ justVerified \in BOOLEAN
    /\ pc \in PC
    /\ request \in Request
    /\ stage \in Stage \union {"end"}
    /\ token \in Name \union {None}
    /\ served \in Served

Init ==
    /\ AdapterInit
    /\ health = "DETACHED"
    /\ chain = EmptyChain
    /\ lastProcessId = None
    /\ lostCause = "none"
    /\ environment = None
    /\ justVerified = FALSE
    /\ pc = "idle"
    /\ request = NoRequest
    /\ stage = "end"
    /\ token = None
    /\ served = NotServed

-----------------------------------------------------------------------------
(* State transitions.                                                      *)

\* replace(self._state, health=..., chain=...): the rest is preserved.
Keep(newHealth, newChain) ==
    /\ health' = newHealth
    /\ chain' = newChain
    /\ UNCHANGED <<lastProcessId, lostCause, environment>>

\* Mutant: a replace() that carries the environment into LOST.
ToLostReplace(cause) ==
    /\ health' = "LOST"
    /\ chain' = EmptyChain
    /\ lostCause' = cause
    /\ UNCHANGED <<lastProcessId, environment>>

\* A fresh _SessionState: everything not named takes its default.
ToLost(cause) ==
    /\ health' = "LOST"
    /\ chain' = EmptyChain
    /\ lostCause' = cause
    /\ environment' = None
    /\ UNCHANGED lastProcessId

\* Mutant: every fault is recorded as a cause.
CauseOfAny(fault) == fault

CauseOf(fault) == IF fault \in LostCause THEN fault ELSE "none"

\* Mutant: the verify context classifies as the operation context does.
FaultInVerifySuspect(fault) ==
    IF fault \in LostCause THEN ToLost(fault) ELSE Keep("SUSPECT", chain)

\* _classify_fault(context="verify"): terminal.
FaultInVerify(fault) == ToLost(CauseOf(fault))

\* _classify_fault(context="operation").
FaultInOperation(fault) ==
    IF fault \in LostCause THEN ToLost(fault)
    ELSE IF fault = "internal_error" /\ justVerified THEN UNCHANGED sessionState
    ELSE Keep("SUSPECT", chain)

-----------------------------------------------------------------------------
(* Gates of the operation bodies, answered from the session's own chain.   *)

PrerequisiteMet(s) == s = "project" \/ chain[Upstream[s]] # None

\* Mutant: the gate looks at the chain alone.
AllowedByChain(r) ==
    IF r.op \in {"list", "select"}
      THEN PrerequisiteMet(r.stage)
      ELSE chain["project"] # None /\ chain["design"] # None

Allowed(r) ==
    /\ health = "ATTACHED"
    /\ IF r.op \in {"list", "select"}
         THEN PrerequisiteMet(r.stage)
         ELSE chain["project"] # None /\ chain["design"] # None

-----------------------------------------------------------------------------
(* A request arrives.                                                      *)

Idle ==
    /\ pc = "idle"
    /\ LateOrphans \/ orphans = {}

Attach(p) ==
    /\ Idle
    /\ pc' = "attach"
    /\ call' = BeginAttach(p)
    /\ request' = [NoRequest EXCEPT !.op = "attach"]
    /\ served' = NotServed
    /\ justVerified' = FALSE
    /\ UNCHANGED <<desktop, apps, selection, orphans, sessionState, stage, token>>

\* reconnect_guarded: a SUSPECT session is re-verified before the method runs.
Guarded(r) ==
    /\ Idle
    /\ request' = r
    /\ IF health = "SUSPECT"
         THEN pc' = "verify_list" /\ stage' = "project"
         ELSE pc' = "body" /\ stage' = "end"
    /\ served' = NotServed
    /\ justVerified' = FALSE
    /\ UNCHANGED <<adapterVars, sessionState, token>>

ListSelectionOptions(s) == Guarded([op |-> "list", stage |-> s, choice |-> None])
Select(s, c) == Guarded([op |-> "select", stage |-> s, choice |-> c])
Inspect == Guarded([NoRequest EXCEPT !.op = "inspect"])
ValidateNative == Guarded([NoRequest EXCEPT !.op = "validate_native"])

Receive ==
    \/ \E p \in Process : Attach(p)
    \/ \E s \in Stage : ListSelectionOptions(s)
    \/ \E s \in Stage : \E c \in Choices[s] : Select(s, c)
    \/ Inspect
    \/ ValidateNative

-----------------------------------------------------------------------------
(* The adapter call each point of control makes.  The worker reads the     *)
(* adapter's selection when it begins, so this is a step of its own.       *)

Calling(worker) ==
    /\ call.op = "none"
    /\ call' = worker
    /\ UNCHANGED <<desktop, apps, selection, orphans, sessionState, control, served>>

CallVerifyList == pc = "verify_list" /\ Calling(Begin("list", stage, None))
CallVerifySelect == pc = "verify_select" /\ Calling(Begin("select", stage, token))
CallResync == pc = "resync" /\ Calling(Begin("select", stage, chain[stage]))

CallBody ==
    /\ pc = "body"
    /\ Allowed(request)
    /\ Calling(Begin(request.op, request.stage, request.choice))

Return ==
    /\ pc' = "idle"
    /\ justVerified' = FALSE
    /\ UNCHANGED <<request, stage, token>>

\* A gate declined before PyAEDT was reached.
Refuse ==
    /\ pc = "body"
    /\ call.op = "none"
    /\ ~Allowed(request)
    /\ Return
    /\ UNCHANGED <<adapterVars, sessionState, served>>

-----------------------------------------------------------------------------
(* _verify: stage by stage, list the options, find the saved choice among  *)
(* them, select it again and compare its identity anchor.                  *)

\* The wrapper goes on to the method it guards.
EndVerify ==
    /\ pc' = "body"
    /\ stage' = "end"
    /\ token' = None
    /\ justVerified' = TRUE
    /\ UNCHANGED request

GoTo(newPc, newStage, newToken) ==
    /\ pc' = newPc
    /\ stage' = newStage
    /\ token' = newToken
    /\ UNCHANGED <<request, justVerified>>

\* Mutant: a reset that does not bring the adapter back.
ResetFromNoResync(s) ==
    /\ Keep("ATTACHED", Cleared(chain, ClearFrom[s]))
    /\ EndVerify

\* _reset_from: keep the confirmed stages, stay ATTACHED, and (in resync)
\* select them again in the adapter.
ResetFrom(s) ==
    /\ Keep("ATTACHED", Cleared(chain, ClearFrom[s]))
    /\ IF s = "project" THEN EndVerify ELSE GoTo("resync", "project", None)

\* Mutant: a fault during re-verification starts it over.
VerifyFailsRetry(fault) ==
    UNCHANGED sessionState /\ GoTo("verify_list", "project", None)

VerifyFails(fault) == FaultInVerify(fault) /\ EndVerify

\* The stage is confirmed; stop after the last one that is set.
Confirmed ==
    LET next == NextStage[stage]
    IN  IF next = "end" \/ chain[next] = None
          THEN Keep("ATTACHED", chain) /\ EndVerify
          ELSE GoTo("verify_list", next, None) /\ UNCHANGED sessionState

\* _present_choice: the option that is still the saved selection.
PresentChoices(options) ==
    {o.value : o \in {x \in options :
        IF stage = "variation" THEN x.hash = chain["variation"]
                               ELSE x.value = chain[stage]}}

VerifyListed ==
    /\ pc = "verify_list"
    /\ \E r \in Outcomes(call) :
        /\ Answer(r)
        /\ \/ r.kind \in Fault /\ VerifyFails(r.kind)
           \/ r.kind = "cannot_evaluate" /\ stage = "project"
                /\ ToLost("none") /\ EndVerify
           \/ r.kind = "cannot_evaluate" /\ stage # "project" /\ ResetFrom(stage)
           \/ r.kind = "ok" /\ chain["project"] = None
                /\ Keep("ATTACHED", chain) /\ EndVerify
           \/ r.kind = "ok" /\ chain["project"] # None
                /\ PresentChoices(r.options) = {} /\ ResetFrom(stage)
           \/ r.kind = "ok" /\ chain["project"] # None
                /\ \E c \in PresentChoices(r.options) : GoTo("verify_select", stage, c)
                /\ UNCHANGED sessionState
    /\ UNCHANGED served

\* The identity anchor: a project's path, a design's solution type, a
\* variation's hash; a setup's or sweep's presence was enough.
AnchorOf == [project |-> "path", design |-> "solution_type", setup |-> "setup",
             sweep |-> "sweep", variation |-> "variation"]

SameAnchor(c) ==
    stage \in {"setup", "sweep"} \/ c[AnchorOf[stage]] = chain[AnchorOf[stage]]

VerifySelected ==
    /\ pc = "verify_select"
    /\ \E r \in Outcomes(call) :
        /\ Answer(r)
        /\ \/ r.kind \in Fault /\ VerifyFails(r.kind)
           \/ r.kind = "cannot_evaluate" /\ ResetFrom(stage)
           \/ r.kind = "ok" /\ ~SameAnchor(Sanitized(r.chain)) /\ ResetFrom(stage)
           \/ r.kind = "ok" /\ SameAnchor(Sanitized(r.chain)) /\ Confirmed
    /\ UNCHANGED served

\* _resync_adapter: anything but a completed select is terminal.
Resynced ==
    /\ pc = "resync"
    /\ \E r \in Outcomes(call) :
        /\ Answer(r)
        /\ \/ r.kind \in Fault /\ VerifyFails(r.kind)
           \/ r.kind = "cannot_evaluate" /\ ToLost("none") /\ EndVerify
           \/ /\ r.kind = "ok"
              /\ LET next == NextStage[stage]
                 IN  IF next = "variation" \/ chain[next] = None
                       THEN EndVerify ELSE GoTo("resync", next, None)
              /\ UNCHANGED sessionState
    /\ UNCHANGED served

-----------------------------------------------------------------------------
(* The operation's own adapter call answers.                               *)

Attached ==
    /\ pc = "attach"
    /\ \E r \in Outcomes(call) :
        /\ Answer(r)
        /\ \/ r.kind = "cannot_evaluate" /\ UNCHANGED sessionState
           \/ /\ r.kind \in Fault
              /\ health' = "DETACHED"
              /\ chain' = EmptyChain
              /\ lastProcessId' = call.handle
              /\ lostCause' = "none"
              /\ environment' = None
           \/ /\ r.kind = "ok"
              /\ health' = "ATTACHED"
              /\ chain' = OnlyProcess(call.handle)
              /\ lastProcessId' = call.handle
              /\ lostCause' = "none"
              /\ environment' = r.environment
    /\ Return
    /\ UNCHANGED served

\* A design read succeeded: provenance stamps it with the session's selection
\* and the environment captured at attach.
Serve(r) ==
    served' = [process |-> r.handle, project |-> r.project, design |-> r.design,
               stamp |-> chain, environment |-> environment,
               verified |-> justVerified]

Answered ==
    /\ pc = "body"
    /\ \E r \in Outcomes(call) :
        /\ Answer(r)
        /\ \/ r.kind \in Fault /\ FaultInOperation(r.kind) /\ UNCHANGED served
           \/ r.kind = "cannot_evaluate" /\ UNCHANGED <<sessionState, served>>
           \/ r.kind = "ok" /\ request.op = "select"
                /\ Keep(health, Sanitized(r.chain)) /\ UNCHANGED served
           \/ r.kind = "ok" /\ request.op = "list" /\ UNCHANGED <<sessionState, served>>
           \/ r.kind = "ok" /\ request.op \in {"inspect", "validate_native"}
                /\ Serve(r) /\ UNCHANGED sessionState
    /\ Return

-----------------------------------------------------------------------------
\* Steps of the request being served; the watchdog makes every call answer.
Progress ==
    \/ CallVerifyList \/ CallVerifySelect \/ CallResync \/ CallBody \/ Refuse
    \/ VerifyListed \/ VerifySelected \/ Resynced \/ Attached \/ Answered

\* Steps of worker threads.
Workers ==
    /\ Connect \/ Bind \/ OrphanStep
    /\ UNCHANGED <<sessionState, control, served>>

Next == Receive \/ Progress \/ Workers

Spec == Init /\ [][Next]_vars

-----------------------------------------------------------------------------
(* Properties.                                                             *)

IsConnected == health \in {"ATTACHED", "SUSPECT"}

\* Provenance is stamped with the environment captured at attach, so it must
\* exist exactly while a process is attached (status.py, _SessionState): a lost
\* or failed session keeps no environment and no selection, and only a LOST one
\* has a cause.
EnvironmentIffConnected ==
    /\ IsConnected <=> environment # None
    /\ ~IsConnected => chain = EmptyChain
    /\ health # "LOST" => lostCause = "none"

\* The guided order of the session's own chain: no stage is ever selected below
\* one that is not, although the chain is whatever the adapter answered.
GuidedOrder == \A s \in Stage : chain[s] # None => chain[Upstream[s]] # None

\* Whenever an operation may run with a project selected, the adapter scopes it
\* to the very selections of the session, after any sequence of selections,
\* timeouts, re-verifications, resets and re-attaches.
ScopeAgreement ==
    (health = "ATTACHED" /\ pc \in {"idle", "body"} /\ chain["project"] # None)
        => SameSelection(Sanitized(selection), chain, SelectionField)

\* The read this product exists to get right: data served under a provenance
\* stamp comes from the process, project and design the stamp names, and the
\* stamped environment is that process's.
MatchesItsStamp(r) ==
    /\ r.process = r.stamp["process_id"]
    /\ r.environment = r.process
    /\ r.project = r.stamp["project"]
    /\ r.design = r.stamp["design"]

ServedUnderItsStamp == served.stamp # EmptyChain => MatchesItsStamp(served)

\* A re-verification ends with the session ATTACHED or LOST, never still SUSPECT,
\* and while it runs no call but its own reaches the adapter.
VerifyConcludes ==
    [][ /\ (pc \in Verifying /\ pc' \notin Verifying) => health' \in {"ATTACHED", "LOST"}
        /\ pc \in Verifying => call'.op \in {"none", "list", "select"} ]_vars

\* Every request returns: re-verification and resync visit finitely many stages.
RequestReturns == (pc # "idle") ~> (pc = "idle")

\* The session implements its lifecycle.
Lifecycle == INSTANCE SessionLifecycle
    WITH selections <- [f \in SelectionField |-> chain[f]]
ImplementsLifecycle == Lifecycle!Spec

-----------------------------------------------------------------------------
(* What the source says of itself and the model refutes.                   *)

\* serialization.py on a worker writing the adapter's selection late: "That path
\* is covered by the SUSPECT / re-verify protocol", which runs before the next
\* operation: a read made right after a re-verification is of the stamped design.
VerifiedReadIsOfStampedDesign ==
    served.verified => /\ served.project = served.stamp["project"]
                       /\ served.design = served.stamp["design"]
=============================================================================
