--------------------------- MODULE SessionInvariant -------------------------
(***************************************************************************)
(* The inductive invariants behind the session's safety properties.  The   *)
(* first, LifeInv, holds whatever abandoned workers write; the second,     *)
(* ScopeInv, when callers wait for them.                                   *)
(***************************************************************************)
EXTENDS Session

-----------------------------------------------------------------------------
(* Control: which adapter call is in flight at which point.                *)

\* A selection names something, and an attach, the one call that connects, a
\* process.
WellFormed(w) ==
    /\ w.op = "none" => w.at = "none"
    /\ w.op = "select" => w.choice \in Name
    /\ w.at = "connect" => w.op = "attach"
    /\ w.op = "attach" => w.handle \in Process

CallsFitControl ==
    /\ pc = "idle" => call.op = "none"
    /\ pc = "attach" => call.op = "attach"
    /\ pc = "verify_list" => call.op \in {"none", "list"}
    /\ pc \in {"verify_select", "resync"} => call.op \in {"none", "select"}
    /\ pc \in Verifying => stage \in Stage
    /\ (pc \in Verifying /\ call.op # "none") => call.stage = stage
    /\ (pc = "body" /\ call.op # "none") =>
            /\ Allowed(request)
            /\ call.op = request.op
            /\ call.stage = request.stage
            /\ call.choice = request.choice

ChoicesAreNames ==
    /\ request.op \notin {"none", "attach"} \/ pc \in {"idle", "attach"}
    /\ request.op = "select" => request.choice \in Name
    /\ pc = "verify_select" => token \in Name
    /\ pc = "resync" => stage \in NameField /\ chain[stage] # None
    /\ (pc \in Verifying /\ (pc = "verify_select" \/ stage # "project"))
            => chain["project"] # None
    /\ WellFormed(call)
    /\ \A w \in orphans : WellFormed(w)

\* Versions are read from a desktop.
AttachReadsADesktop ==
    (call.op = "attach" /\ call.at # "connect") => desktop # None

HealthFitsControl ==
    /\ pc \in {"verify_list", "verify_select"} => health = "SUSPECT"
    /\ pc = "resync" => health = "ATTACHED"

LifeInv ==
    /\ TypeOK
    /\ CallsFitControl
    /\ ChoicesAreNames
    /\ AttachReadsADesktop
    /\ HealthFitsControl
    /\ EnvironmentIffConnected

-----------------------------------------------------------------------------
(* Scope, when callers wait for abandoned workers.                         *)

\* The selections above a stage.
Above == [project   |-> {"process_id"},
          design    |-> {"process_id", "project"},
          setup     |-> {"process_id", "project", "design"},
          sweep     |-> {"process_id", "project", "design", "setup"},
          variation |-> {"process_id", "project", "design", "setup", "sweep"},
          end       |-> SelectionField]

AgreeAbove(s) == SameSelection(Sanitized(selection), chain, Above[s])

\* An abandoned worker runs on only beside a session nobody trusts.
OrphansOutsideRequests ==
    orphans # {} => /\ pc \in {"idle", "body"}
                    /\ call.op = "none"
                    /\ health # "ATTACHED"

\* The attach in flight has rebound the adapter.
Rebinding == call.op = "attach" /\ call.at # "connect"

\* Desktop, handles, environment and both chains are of one process.
OneProcess ==
    (IsConnected /\ ~Rebinding) =>
        /\ chain["process_id"] # None
        /\ chain["process_id"] = desktop
        /\ selection["process_id"] = desktop
        /\ environment = desktop
        /\ \A k \in Name \X Name : apps[k] \in {None, desktop}
        /\ \A w \in orphans : /\ w.op # "attach"
                              /\ w.handle = desktop
                              /\ w.chain["process_id"] = desktop

FreshlyAttached ==
    Rebinding => /\ call.at = "read"
                 /\ desktop = call.handle
                 /\ selection = OnlyProcess(call.handle)
                 /\ apps = NoApps

\* A call sees the selection it began with until it answers.
CallsSeeTheSelection ==
    call.op \notin {"none", "attach"} => call.chain = selection /\ call.handle = desktop

\* What the session keeps is sanitised already.
ChainIsClean == Sanitized(chain) = chain

\* How far re-verification or resync has brought the adapter back.
VerifiedSoFar ==
    /\ pc \in Verifying => AgreeAbove(stage)
    /\ (pc \in Verifying /\ stage # "project") => chain[stage] # None
    /\ pc = "verify_select" => chain[stage] # None
    /\ (pc = "verify_select" /\ stage # "variation") => token = chain[stage]
    /\ pc = "resync" => chain["variation"] = None
    /\ (pc = "verify_select" /\ call.op # "none") => call.choice = token
    /\ (pc = "resync" /\ call.op # "none") => call.choice = chain[stage]

ScopesAgree ==
    (health = "ATTACHED" /\ pc \notin Verifying /\ ~Rebinding /\ chain["project"] # None)
        => AgreeAbove("end")

ScopeInv ==
    /\ LifeInv
    /\ OrphansOutsideRequests
    /\ OneProcess
    /\ FreshlyAttached
    /\ CallsSeeTheSelection
    /\ ChainIsClean
    /\ GuidedOrder
    /\ VerifiedSoFar
    /\ ScopesAgree
    /\ ServedUnderItsStamp
=============================================================================
