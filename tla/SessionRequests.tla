--------------------------- MODULE SessionRequests --------------------------
(***************************************************************************)
(* The session as a dispatch sees it: a request from its arrival to its    *)
(* answer is one step of SessionStatus.  A history variable keeps the      *)
(* status the request being served began from.                             *)
(***************************************************************************)
EXTENDS SessionInvariant

VARIABLE began

Status == [health |-> health, lostCause |-> lostCause]

RequestInit == Init /\ began = Status

\* A request begins from the last status of an idle session.
RequestNext == Next /\ began' = IF pc = "idle" THEN Status ELSE began

RequestSpec == RequestInit /\ [][RequestNext]_<<vars, began>>

\* A worker is abandoned after its time limit, so the request being served
\* always gets its answer; nobody has to send a request, and an abandoned worker
\* need not ever finish.
FairRequestSpec == RequestSpec /\ WF_vars(Progress)

\* What is shown between requests.
Shown == IF pc = "idle" THEN Status ELSE began

Dispatched == INSTANCE SessionStatus
    WITH health <- Shown.health, lostCause <- Shown.lostCause

\* Whatever a request does to the session, from any state it may be in and through
\* any faults, re-verification or late worker, the broker's model of a session
\* operation allows; so what the broker's properties say of a session they say of
\* this one.
RequestsMoveTheStatus == Dispatched!StatusSpec

-----------------------------------------------------------------------------
(* The inductive invariant.                                                *)

\* Before its body a request leaves the status alone, but for a re-verification,
\* which only a suspect session goes through.
BeganFitsControl ==
    /\ pc \in {"attach", "verify_list", "verify_select"} => began = Status
    /\ pc = "resync" => began.health = "SUSPECT"
    /\ pc = "body" => \/ began = Status
                      \/ began.health = "SUSPECT" /\ health \in {"ATTACHED", "LOST"}
=============================================================================
