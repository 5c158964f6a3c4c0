------------------------------- MODULE Adapter ------------------------------
(***************************************************************************)
(* The adapter: the only code that reaches PyAEDT.  Every public operation *)
(* runs its primitive on a worker thread that the watchdog waits for; on a *)
(* timeout the worker is ABANDONED, not cancelled, and keeps running.      *)
(* Workers share three pieces of state, and nothing synchronises them:     *)
(*   selection  RealAdapter._selection, the chain that scopes every read   *)
(*   desktop    LiveSession._desktop, the AEDT process it is attached to   *)
(*   apps       LiveSession._apps, the Hfss handles bound per (project,    *)
(*              design); a handle is known by the process it was bound to  *)
(* A primitive reads the shared state when it begins, blocks in live       *)
(* calls, and writes when they return; each blocking point is a step of    *)
(* its own, so another worker's writes can fall between.                   *)
(***************************************************************************)
EXTENDS SelectionChain, Naturals, FiniteSets

CONSTANTS
    Choices,     \* Choices[stage]: what AEDT may list, and a caller pass, there
    MaxOrphans   \* bound on abandoned workers that can still write

ASSUME AdapterAssumption ==
    /\ Choices \in [Stage -> SUBSET Name]
    /\ MaxOrphans \in Nat

VARIABLES desktop, apps, selection, call, orphans

adapterVars == <<desktop, apps, selection, call, orphans>>

Op == {"none", "attach", "list", "select", "inspect", "validate_native"}
Phase == {"none", "connect", "bind", "read"}

\* A worker thread: the primitive it runs, the chain it read when it began,
\* the blocking call it is in, and the process that call goes to.
Worker == [op : Op, stage : Stage, choice : Name \union {None}, chain : Chain,
           at : Phase, handle : Process \union {None}]

NoCall == [op |-> "none", stage |-> "project", choice |-> None,
           chain |-> EmptyChain, at |-> "none", handle |-> None]

AdapterTypeOK ==
    /\ desktop \in Process \union {None}
    /\ apps \in [Name \X Name -> Process \union {None}]
    /\ selection \in Chain
    /\ call \in Worker
    /\ orphans \in SUBSET Worker

NoApps == [k \in Name \X Name |-> None]

AdapterInit ==
    /\ desktop = None
    /\ apps = NoApps
    /\ selection = EmptyChain
    /\ call = NoCall
    /\ orphans = {}

-----------------------------------------------------------------------------
(* Scope: what a worker that read chain c can bind.                        *)

Incoherent(c) == c["design"] # None /\ c["project"] = None
Unscoped(c) == c["project"] = None \/ c["design"] = None

\* The primitives that read through a handle bound to (project, design).
ReadsDesign(op, stage) ==
    \/ op \in {"inspect", "validate_native"}
    \/ op = "list" /\ stage \in {"setup", "sweep", "variation"}

\* The (project, design) a worker binds a handle for.
KeyOf(w) == <<w.chain["project"],
              IF w.op = "select" THEN w.choice ELSE w.chain["design"]>>

BindsDesign(op, stage, c) ==
    \/ ReadsDesign(op, stage) /\ ~Unscoped(c)
    \/ op = "select" /\ stage = "design" /\ c["project"] # None

\* The worker that begins now: it reads the selection, takes a cached handle if
\* there is one, and otherwise binds one through the desktop of this moment
\* (Hfss(...) names no process).
Begin(op, stage, choice) ==
    LET w == [op |-> op, stage |-> stage, choice |-> choice, chain |-> selection,
              at |-> "read", handle |-> desktop]
    IN  IF ~BindsDesign(op, stage, selection) THEN w
        ELSE IF apps[KeyOf(w)] = None THEN [w EXCEPT !.at = "bind"]
        ELSE [w EXCEPT !.handle = apps[KeyOf(w)]]

BeginAttach(p) ==
    [NoCall EXCEPT !.op = "attach", !.at = "connect", !.handle = p]

\* A worker still able to write the shared state.
CanStillWrite(w) == w.at \in {"connect", "bind"} \/ w.op = "select"

-----------------------------------------------------------------------------
(* What a worker writes when a live call returns.                          *)

\* Mutant: _attach without reset_bindings.
ConnectedKeepingHandles(w) ==
    /\ desktop' = w.handle
    /\ apps' = apps
    /\ selection' = OnlyProcess(w.handle)

\* Desktop(...) returned: _attach rebinds the desktop, drops every handle and
\* starts a fresh selection, before it reads the versions.
Connected(w) ==
    /\ desktop' = w.handle
    /\ apps' = NoApps
    /\ selection' = OnlyProcess(w.handle)

\* Hfss(...) returned: application() caches the handle, whatever is there now.
Bound(w) ==
    /\ apps' = [apps EXCEPT ![KeyOf(w)] = w.handle]
    /\ UNCHANGED <<desktop, selection>>

\* The chains _select can build from the chain its worker read: the live call
\* it made, if any, can report any path or solution type.
Selected(w) ==
    IF w.stage = "project"
      THEN {[WithStage(w.chain, "project", w.choice) EXCEPT !["path"] = p] : p \in Path}
    ELSE IF w.stage = "design" /\ w.chain["project"] # None
      THEN {[WithStage(w.chain, "design", w.choice) EXCEPT !["solution_type"] = t]
                : t \in SolutionType}
    ELSE IF w.stage = "variation"
      THEN {WithStage(w.chain, "variation", HashOf[w.choice])}
    ELSE {WithStage(w.chain, w.stage, w.choice)}

-----------------------------------------------------------------------------
(* Outcomes.  The caller gets one: a value, cannot_evaluate, or one of the *)
(* four session faults.                                                    *)

Fault == {"timeout", "crash", "disconnect", "internal_error"}

\* _scope and the guards of _list_options decline before any live call.
Declined(w) ==
    IF ReadsDesign(w.op, w.stage) /\ Incoherent(w.chain) THEN "internal_error"
    ELSE IF \/ ReadsDesign(w.op, w.stage) /\ Unscoped(w.chain)
            \/ w.op = "list" /\ w.stage = "design" /\ w.chain["project"] = None
      THEN "cannot_evaluate"
    ELSE "none"

Outcome(kind) == [kind |-> kind]

\* Options come back sanitised; a variation's hash is that of the raw token.
Option(n) == [value |-> Clean[n], hash |-> HashOf[n]]

Listings(w) ==
    {S \in SUBSET {Option(n) : n \in Choices[w.stage]} :
        /\ w.stage = "variation" => S # {}
        /\ w.stage = "sweep" => w.chain["setup"] # None}

\* The values a worker whose last live call returns can answer with.  A chain is
\* here as the adapter keeps it: its caller receives the Sanitized copy.
Values(w) ==
    IF w.op = "attach" THEN {[kind |-> "ok", environment |-> desktop]}
    ELSE IF w.op = "list" THEN {[kind |-> "ok", options |-> S] : S \in Listings(w)}
    ELSE IF w.op = "select" THEN {[kind |-> "ok", chain |-> c] : c \in Selected(w)}
    ELSE {[kind |-> "ok", handle |-> w.handle,
           project |-> Clean[w.chain["project"]],
           design |-> Clean[w.chain["design"]]]}

Outcomes(w) ==
    IF Declined(w) # "none" THEN {Outcome(Declined(w))}
    ELSE {Outcome(k) : k \in Fault}
         \union (IF w.op = "attach" /\ w.at = "read" THEN {}
                 ELSE {Outcome("cannot_evaluate")})
         \union (IF w.at = "read" THEN Values(w) ELSE {})

\* The call in flight answers r.  Only a successful select writes at this point;
\* on a timeout the worker is abandoned where it stands.
Answer(r) ==
    /\ call.op # "none"
    /\ r \in Outcomes(call)
    /\ IF r.kind = "timeout" /\ CanStillWrite(call)
         THEN /\ Cardinality(orphans) < MaxOrphans
              /\ orphans' = orphans \union {call}
         ELSE orphans' = orphans
    /\ selection' = IF r.kind = "ok" /\ call.op = "select" THEN r.chain ELSE selection
    /\ call' = NoCall
    /\ UNCHANGED <<desktop, apps>>

-----------------------------------------------------------------------------
(* Steps of the call in flight between its live calls.                     *)

Connect ==
    /\ call.at = "connect"
    /\ Connected(call)
    /\ call' = [call EXCEPT !.at = "read"]
    /\ UNCHANGED orphans

Bind ==
    /\ call.at = "bind"
    /\ Bound(call)
    /\ call' = [call EXCEPT !.at = "read"]
    /\ UNCHANGED orphans

(* Steps of abandoned workers; nothing waits for them any more.            *)

OrphanConnect ==
    \E w \in orphans :
        /\ w.at = "connect"
        /\ Connected(w)
        /\ orphans' = orphans \ {w}
        /\ UNCHANGED call

OrphanBind ==
    \E w \in orphans :
        /\ w.at = "bind"
        /\ Bound(w)
        /\ orphans' = (orphans \ {w}) \union
                        (IF w.op = "select" THEN {[w EXCEPT !.at = "read"]} ELSE {})
        /\ UNCHANGED call

OrphanSelect ==
    \E w \in orphans :
        /\ w.op = "select" /\ w.at = "read"
        /\ selection' \in Selected(w)
        /\ orphans' = orphans \ {w}
        /\ UNCHANGED <<desktop, apps, call>>

\* A live call of an abandoned worker raises: the worker ends without writing.
OrphanRaises ==
    \E w \in orphans :
        /\ orphans' = orphans \ {w}
        /\ UNCHANGED <<desktop, apps, selection, call>>

OrphanStep == OrphanConnect \/ OrphanBind \/ OrphanSelect \/ OrphanRaises
=============================================================================
