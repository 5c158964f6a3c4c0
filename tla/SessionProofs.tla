---------------------------- MODULE SessionProofs ---------------------------
(***************************************************************************)
(* Proofs about the session that hold whatever abandoned workers write:    *)
(* LifeInv is inductive, and a request is one step of the session that the *)
(* broker's model sees.                                                    *)
(***************************************************************************)
EXTENDS SessionRequests, TLAPS

-----------------------------------------------------------------------------
(* Part 1: the chain.                                                      *)

LEMMA EmptyChainType ==
    /\ EmptyChain \in Chain
    /\ \A p \in Process : OnlyProcess(p) \in Chain
  BY DEF EmptyChain, OnlyProcess, Chain, Field, Value, NameField

\* Clearing fields of a chain leaves a chain.
LEMMA ClearedType ==
  ASSUME NEW c \in Chain, NEW F
  PROVE  Cleared(c, F) \in Chain
  BY DEF Cleared, Chain, Field, Value, NameField

\* Which value a stage takes.
ValueFor(s, v) == IF s = "variation" THEN v \in VariationHash ELSE v \in Name

\* Recording a stage choice in a chain leaves a chain.
LEMMA WithStageType ==
  ASSUME NEW c \in Chain, NEW s \in Stage, NEW v, ValueFor(s, v)
  PROVE  WithStage(c, s, v) \in Chain
  <1> DEFINE d == Cleared(c, DownstreamOf[s])
  <1>1. d \in Chain
    BY ClearedType
  <1>2. s \in Field /\ s # "process_id" /\ (s \in NameField <=> s # "variation")
    BY DEF Stage, Field, NameField
  <1>3. v \in Value
    BY DEF ValueFor, Value
  <1>4. WithStage(c, s, v) = [d EXCEPT ![s] = v]
    BY DEF WithStage
  <1>5. [d EXCEPT ![s] = v] \in [Field -> Value]
    BY <1>1, <1>2, <1>3 DEF Chain
  <1>6. [d EXCEPT ![s] = v]["process_id"] \in Process \union {None}
    BY <1>1, <1>2 DEF Chain, Field
  <1>7. ASSUME NEW f \in NameField
        PROVE  [d EXCEPT ![s] = v][f] \in Name \union {None}
    BY <1>1, <1>2, <1>7 DEF Chain, Field, NameField, ValueFor
  <1> QED
    BY <1>4, <1>5, <1>6, <1>7 DEF Chain

\* A sanitised chain is a chain.
LEMMA SanitizedType ==
  ASSUME NEW c \in Chain
  PROVE  Sanitized(c) \in Chain
  BY ChainAssumption DEF Sanitized, Chain, Field, Value, NameField

\* What a select builds is a chain.
LEMMA SelectedType ==
  ASSUME NEW w \in Worker, w.choice \in Name, NEW c \in Selected(w)
  PROVE  c \in Chain
  <1> USE DEF Worker
  <1>1. HashOf[w.choice] \in VariationHash
    BY ChainAssumption
  <1>2. CASE w.stage = "project"
    <2>1. PICK p \in Path : c = [WithStage(w.chain, "project", w.choice) EXCEPT !["path"] = p]
      BY <1>2 DEF Selected
    <2>2. WithStage(w.chain, "project", w.choice) \in Chain
      BY <1>2, WithStageType DEF ValueFor
    <2> QED
      BY <2>1, <2>2 DEF Chain, Field, Value, NameField
  <1>3. CASE w.stage = "design" /\ w.chain["project"] # None
    <2>1. PICK t \in SolutionType :
            c = [WithStage(w.chain, "design", w.choice) EXCEPT !["solution_type"] = t]
      BY <1>3 DEF Selected
    <2>2. WithStage(w.chain, "design", w.choice) \in Chain
      BY <1>3, WithStageType DEF ValueFor
    <2> QED
      BY <2>1, <2>2 DEF Chain, Field, Value, NameField
  <1>4. CASE w.stage = "variation"
    <2>1. c = WithStage(w.chain, "variation", HashOf[w.choice])
      BY <1>4 DEF Selected
    <2> QED
      BY <2>1, <1>1, <1>4, WithStageType DEF ValueFor
  <1>5. CASE ~(w.stage = "project") /\ ~(w.stage = "design" /\ w.chain["project"] # None)
             /\ ~(w.stage = "variation")
    <2>1. c = WithStage(w.chain, w.stage, w.choice)
      BY <1>5 DEF Selected
    <2> QED
      BY <2>1, <1>5, WithStageType DEF ValueFor
  <1> QED
    BY <1>2, <1>3, <1>4, <1>5

-----------------------------------------------------------------------------
(* Part 2: workers.                                                        *)

\* The worker a call begins is what the call asked for.
LEMMA BeginType ==
  ASSUME AdapterTypeOK, NEW op \in Op, NEW s \in Stage, NEW c \in Name \union {None},
         op = "select" => c \in Name
  PROVE  /\ Begin(op, s, c) \in Worker
         /\ Begin(op, s, c).op = op
         /\ Begin(op, s, c).stage = s
         /\ Begin(op, s, c).choice = c
         /\ Begin(op, s, c).chain = selection
         /\ Begin(op, s, c).at # "connect"
  <1> DEFINE w == [op |-> op, stage |-> s, choice |-> c, chain |-> selection,
                   at |-> "read", handle |-> desktop]
  <1>1. w \in Worker
    BY DEF AdapterTypeOK, Worker, Phase
  <1>2. CASE ~BindsDesign(op, s, selection)
    BY <1>1, <1>2 DEF Begin
  <1>3. CASE BindsDesign(op, s, selection)
    <2>1. selection["project"] \in Name
      BY <1>3 DEF BindsDesign, Unscoped, AdapterTypeOK, Chain, NameField
    <2>2. op # "select" => selection["design"] \in Name
      BY <1>3 DEF BindsDesign, Unscoped, AdapterTypeOK, Chain, NameField
    <2>3. KeyOf(w) \in Name \X Name
      BY <2>1, <2>2 DEF KeyOf
    <2>4. apps[KeyOf(w)] \in Process \union {None}
      BY <2>3 DEF AdapterTypeOK
    <2>5. [w EXCEPT !.at = "bind"] \in Worker /\ [w EXCEPT !.handle = apps[KeyOf(w)]] \in Worker
      BY <1>1, <2>4 DEF Worker, Phase
    <2>6. Begin(op, s, c) = IF apps[KeyOf(w)] = None THEN [w EXCEPT !.at = "bind"]
                            ELSE [w EXCEPT !.handle = apps[KeyOf(w)]]
      BY <1>3 DEF Begin
    <2> QED
      BY <2>5, <2>6
  <1> QED
    BY <1>2, <1>3

\* An attach begins at connect, with the process it asked for.
LEMMA BeginAttachType ==
  ASSUME NEW p \in Process
  PROVE  /\ BeginAttach(p) \in Worker
         /\ BeginAttach(p).op = "attach"
         /\ BeginAttach(p).at = "connect"
         /\ BeginAttach(p).handle = p
  BY EmptyChainType DEF BeginAttach, NoCall, Worker, Op, Phase, Stage

\* What the caller learns from an answer.
LEMMA OutcomeFacts ==
  ASSUME NEW w \in Worker, NEW r \in Outcomes(w)
  PROVE  /\ r.kind \in Fault \union {"ok", "cannot_evaluate"}
         /\ r.kind = "ok" => Declined(w) = "none" /\ w.at = "read" /\ r \in Values(w)
  <1>1. CASE Declined(w) # "none"
    <2>1. r.kind = Declined(w)
      BY <1>1 DEF Outcomes, Outcome
    <2> QED
      BY <1>1, <2>1 DEF Declined, Fault
  <1>2. CASE Declined(w) = "none"
    <2>1. \A v \in Values(w) : v.kind = "ok"
      BY DEF Values
    <2>2. (r \in Values(w) /\ w.at = "read") \/ (r.kind \in Fault \union {"cannot_evaluate"})
      BY <1>2 DEF Outcomes, Outcome
    <2> QED
      BY <1>2, <2>1, <2>2 DEF Fault
  <1> QED
    BY <1>1, <1>2

\* An answer ends the call and leaves the adapter well typed.
LEMMA AnswerType ==
  ASSUME AdapterTypeOK, WellFormed(call), \A w \in orphans : WellFormed(w),
         NEW r, Answer(r)
  PROVE  /\ AdapterTypeOK'
         /\ call' = NoCall
         /\ call.op # "none"
         /\ UNCHANGED <<desktop, apps>>
         /\ r \in Outcomes(call)
         /\ \A w \in orphans' : WellFormed(w)
  <1>1. call' = NoCall /\ call.op # "none" /\ UNCHANGED <<desktop, apps>> /\ r \in Outcomes(call)
    BY DEF Answer
  <1>2. call \in Worker
    BY DEF AdapterTypeOK
  <1>3. NoCall \in Worker
    BY EmptyChainType DEF NoCall, Worker, Op, Phase, Stage
  <1>4. orphans' = orphans \/ orphans' = orphans \union {call}
    BY DEF Answer
  <1>5. selection' \in Chain
    <2>1. CASE r.kind = "ok" /\ call.op = "select"
      <3>1. r \in Values(call)
        BY <1>1, <1>2, <2>1, OutcomeFacts
      <3>2. r.chain \in Selected(call)
        BY <2>1, <3>1 DEF Values
      <3>3. selection' = r.chain
        BY <2>1 DEF Answer
      <3> QED
        BY <1>2, <2>1, <3>2, <3>3, SelectedType DEF WellFormed
    <2>2. CASE ~(r.kind = "ok" /\ call.op = "select")
      BY <2>2 DEF Answer, AdapterTypeOK
    <2> QED
      BY <2>1, <2>2
  <1> QED
    BY <1>1, <1>2, <1>3, <1>4, <1>5 DEF AdapterTypeOK

\* A connection rebinds the adapter to the process it was made to.
LEMMA ConnectedType ==
  ASSUME NEW w \in Worker, w.handle \in Process, Connected(w)
  PROVE  /\ desktop' \in Process
         /\ apps' \in [Name \X Name -> Process \union {None}]
         /\ selection' \in Chain
  BY EmptyChainType DEF Connected, NoApps

\* Binding a handle, or finding one, leaves the handle cache well typed.
LEMMA BoundType ==
  ASSUME AdapterTypeOK, NEW w \in Worker, Bound(w)
  PROVE  /\ apps' \in [Name \X Name -> Process \union {None}]
         /\ UNCHANGED <<desktop, selection>>
  <1>1. w.handle \in Process \union {None}
    BY DEF Worker
  <1> QED
    BY <1>1 DEF Bound, AdapterTypeOK

\* The adapter's own part of LifeInv.
AdapterOK ==
    /\ AdapterTypeOK
    /\ WellFormed(call)
    /\ \A w \in orphans : WellFormed(w)

\* A step of an abandoned worker keeps the adapter well typed.
LEMMA WorkersOK ==
  ASSUME AdapterOK, Connect \/ Bind \/ OrphanStep
  PROVE  /\ AdapterOK'
         /\ call' = call \/ (call' = [call EXCEPT !.at = "read"] /\ call.at # "read")
         /\ desktop # None => desktop' # None
         /\ call' # call /\ call.op = "attach" /\ call.at = "connect" => desktop' # None
  <1> USE DEF AdapterOK
  <1>1. /\ call \in Worker /\ orphans \in SUBSET Worker
        /\ \A w \in orphans : w.at = "connect" => w.handle \in Process
        /\ call.at = "connect" => call.handle \in Process
    BY DEF AdapterTypeOK, WellFormed
  <1>2. None \notin Process
    BY ChainAssumption
  <1>3. \A w \in Worker : [w EXCEPT !.at = "read"] \in Worker
    BY DEF Worker, Phase
  <1>4. \A w \in Worker : WellFormed(w) /\ w.at # "none" => WellFormed([w EXCEPT !.at = "read"])
    BY DEF WellFormed, Worker
  <1>5. CASE Connect
    <2>1. Connected(call)
      BY <1>5 DEF Connect
    <2>2. /\ desktop' \in Process
          /\ apps' \in [Name \X Name -> Process \union {None}]
          /\ selection' \in Chain
      BY <1>1, <1>5, <2>1, ConnectedType DEF Connect
    <2> QED
      BY <1>1, <1>2, <1>3, <1>4, <1>5, <2>2 DEF Connect, AdapterTypeOK
  <1>6. CASE Bind
    <2>1. Bound(call)
      BY <1>6 DEF Bind
    <2>2. /\ apps' \in [Name \X Name -> Process \union {None}]
          /\ UNCHANGED <<desktop, selection>>
      BY <1>1, <2>1, BoundType
    <2> QED
      BY <1>1, <1>3, <1>4, <1>6, <2>2 DEF Bind, AdapterTypeOK
  <1>7. CASE OrphanConnect
    <2>1. PICK w \in orphans : w.at = "connect" /\ Connected(w) /\ orphans' = orphans \ {w}
                               /\ UNCHANGED call
      BY <1>7 DEF OrphanConnect
    <2>2. /\ desktop' \in Process
          /\ apps' \in [Name \X Name -> Process \union {None}]
          /\ selection' \in Chain
      BY <1>1, <2>1, ConnectedType
    <2> QED
      BY <1>1, <1>2, <2>1, <2>2 DEF AdapterTypeOK
  <1>8. CASE OrphanBind
    <2>1. PICK w \in orphans : /\ w.at = "bind" /\ Bound(w)
                               /\ orphans' \subseteq orphans \union {[w EXCEPT !.at = "read"]}
                               /\ UNCHANGED call
      BY <1>8 DEF OrphanBind
    <2>2. /\ apps' \in [Name \X Name -> Process \union {None}]
          /\ UNCHANGED <<desktop, selection>>
      BY <1>1, <2>1, BoundType
    <2> QED
      BY <1>1, <1>3, <1>4, <2>1, <2>2 DEF AdapterTypeOK
  <1>9. CASE OrphanSelect
    <2>1. PICK w \in orphans : /\ w.op = "select"
                               /\ selection' \in Selected(w)
                               /\ orphans' = orphans \ {w}
                               /\ UNCHANGED <<desktop, apps, call>>
      BY <1>9 DEF OrphanSelect
    <2>2. selection' \in Chain
      BY <1>1, <2>1, SelectedType DEF WellFormed
    <2> QED
      BY <1>1, <2>1, <2>2 DEF AdapterTypeOK
  <1>10. CASE OrphanRaises
    BY <1>10 DEF OrphanRaises, AdapterTypeOK
  <1> QED
    BY <1>5, <1>6, <1>7, <1>8, <1>9, <1>10 DEF OrphanStep

-----------------------------------------------------------------------------
(* Part 3: LifeInv is preserved, one lemma per action.                     *)

USE DEF Op, Stage, PC, Verifying

\* Every request starts from an idle session.
LEMMA ReceiveLife ==
  ASSUME LifeInv, Receive
  PROVE  LifeInv'
  <1> USE DEF LifeInv, TypeOK, Idle, sessionState
  <1>1. CASE \E p \in Process : Attach(p)
    <2>1. PICK p \in Process : Attach(p)
      BY <1>1
    <2>2. AdapterTypeOK'
      BY <2>1, BeginAttachType DEF Attach, AdapterTypeOK
    <2>3. /\ request' \in Request
          /\ request'.op = "attach"
      BY <2>1 DEF Attach, Request, NoRequest
    <2>4. served' \in Served
      BY <2>1, EmptyChainType DEF Attach, NotServed, Served, Value
    <2>5. TypeOK'
      BY <2>1, <2>2, <2>3, <2>4 DEF Attach
    <2>6. CallsFitControl' /\ ChoicesAreNames' /\ AttachReadsADesktop'
      BY <2>1, <2>3, BeginAttachType
      DEF Attach, CallsFitControl, ChoicesAreNames, AttachReadsADesktop, WellFormed
    <2>7. HealthFitsControl' /\ EnvironmentIffConnected'
      BY <2>1 DEF Attach, HealthFitsControl, EnvironmentIffConnected, IsConnected
    <2> QED
      BY <2>5, <2>6, <2>7
  <1>2. CASE \E r \in Request : /\ Guarded(r)
                                /\ r.op \notin {"none", "attach"}
                                /\ r.op = "select" => r.choice \in Name
    <2>1. PICK r \in Request : /\ Guarded(r)
                               /\ r.op \notin {"none", "attach"}
                               /\ r.op = "select" => r.choice \in Name
      BY <1>2
    <2>2. served' \in Served
      BY <2>1, EmptyChainType DEF Guarded, NotServed, Served, Value
    <2>3. TypeOK'
      BY <2>1, <2>2 DEF Guarded, adapterVars, AdapterTypeOK
    <2>4. CallsFitControl' /\ ChoicesAreNames' /\ AttachReadsADesktop'
      BY <2>1
      DEF Guarded, adapterVars, CallsFitControl, ChoicesAreNames, AttachReadsADesktop, WellFormed
    <2>5. HealthFitsControl' /\ EnvironmentIffConnected'
      BY <2>1 DEF Guarded, HealthFitsControl, EnvironmentIffConnected, IsConnected
    <2> QED
      BY <2>3, <2>4, <2>5
  <1>3. ASSUME NEW s \in Stage, NEW c \in Choices[s]
        PROVE  c \in Name
    BY AdapterAssumption
  <1> DEFINE Fits(r) == /\ r \in Request
                        /\ r.op \notin {"none", "attach"}
                        /\ r.op = "select" => r.choice \in Name
  <1>4. ASSUME NEW s \in Stage, ListSelectionOptions(s)
        PROVE  \E r \in Request : Guarded(r) /\ Fits(r)
    <2>1. Fits([op |-> "list", stage |-> s, choice |-> None])
      BY DEF Request
    <2> QED
      BY <1>4, <2>1 DEF ListSelectionOptions
  <1>5. ASSUME NEW s \in Stage, NEW c \in Choices[s], Select(s, c)
        PROVE  \E r \in Request : Guarded(r) /\ Fits(r)
    <2>1. Fits([op |-> "select", stage |-> s, choice |-> c])
      BY <1>3 DEF Request
    <2> QED
      BY <1>5, <2>1 DEF Select
  <1>6. ASSUME Inspect \/ ValidateNative
        PROVE  \E r \in Request : Guarded(r) /\ Fits(r)
    <2>1. /\ Fits([NoRequest EXCEPT !.op = "inspect"])
          /\ Fits([NoRequest EXCEPT !.op = "validate_native"])
      BY DEF Request, NoRequest
    <2> QED
      BY <1>6, <2>1 DEF Inspect, ValidateNative
  <1> QED
    BY <1>1, <1>2, <1>4, <1>5, <1>6 DEF Receive

\* A call begins; it fits the point it is made from.
LEMMA CallLife ==
  ASSUME LifeInv, CallVerifyList \/ CallVerifySelect \/ CallResync \/ CallBody
  PROVE  LifeInv'
  <1> USE DEF LifeInv, TypeOK, sessionState, control
  <1>1. PICK op \in Op, s \in Stage, c \in Name \union {None} :
          /\ Calling(Begin(op, s, c))
          /\ op \notin {"none", "attach"}
          /\ op = "select" => c \in Name
          /\ \/ pc = "verify_list" /\ op = "list" /\ s = stage
             \/ pc \in {"verify_select", "resync"} /\ op = "select" /\ s = stage
             \/ /\ pc = "body" /\ Allowed(request)
                /\ op = request.op /\ s = request.stage /\ c = request.choice
    <2>1. CASE CallVerifyList
      BY <2>1 DEF CallVerifyList, CallsFitControl
    <2>2. CASE CallVerifySelect
      BY <2>2 DEF CallVerifySelect, CallsFitControl, ChoicesAreNames
    <2>3. CASE CallResync
      <3>1. stage \in NameField /\ chain[stage] # None /\ stage \in Stage
        BY <2>3 DEF CallResync, CallsFitControl, ChoicesAreNames
      <3>2. chain[stage] \in Name
        BY <3>1 DEF Chain
      <3> QED
        BY <2>3, <3>1, <3>2 DEF CallResync
    <2>4. CASE CallBody
      BY <2>4 DEF CallBody, Request, ChoicesAreNames
    <2> QED
      BY <2>1, <2>2, <2>3, <2>4
  <1>2. call' = Begin(op, s, c)
    BY <1>1 DEF Calling
  <1>3. /\ call' \in Worker
        /\ call'.op = op /\ call'.stage = s /\ call'.choice = c
        /\ call'.at # "connect"
    BY <1>1, <1>2, BeginType
  <1>4. TypeOK'
    BY <1>1, <1>3 DEF Calling, AdapterTypeOK
  <1>5. CallsFitControl'
    BY <1>1, <1>3 DEF Calling, CallsFitControl, Allowed, PrerequisiteMet
  <1>6. ChoicesAreNames' /\ AttachReadsADesktop'
    BY <1>1, <1>3 DEF Calling, ChoicesAreNames, AttachReadsADesktop, WellFormed
  <1>7. HealthFitsControl' /\ EnvironmentIffConnected'
    BY <1>1 DEF Calling, HealthFitsControl, EnvironmentIffConnected, IsConnected
  <1> QED
    BY <1>4, <1>5, <1>6, <1>7

\* A request the lifecycle refuses keeps LifeInv.
LEMMA RefuseLife ==
  ASSUME LifeInv, Refuse
  PROVE  LifeInv'
  BY DEF LifeInv, TypeOK, sessionState, adapterVars, Refuse, Return, AdapterTypeOK,
         CallsFitControl, ChoicesAreNames, WellFormed, AttachReadsADesktop,
         HealthFitsControl, EnvironmentIffConnected, IsConnected

\* A step of an abandoned worker keeps LifeInv.
LEMMA WorkersLife ==
  ASSUME LifeInv, Workers
  PROVE  LifeInv'
  <1> USE DEF LifeInv, TypeOK, sessionState, control, Workers
  <1>1. AdapterOK
    BY DEF AdapterOK, ChoicesAreNames
  <1>2. /\ AdapterOK'
        /\ call' = call \/ (call' = [call EXCEPT !.at = "read"] /\ call.at # "read")
        /\ desktop # None => desktop' # None
        /\ call' # call /\ call.op = "attach" /\ call.at = "connect" => desktop' # None
    BY <1>1, WorkersOK
  <1>3. call \in Worker
    BY DEF AdapterTypeOK
  <1>4. call'.op = call.op /\ call'.stage = call.stage /\ call'.choice = call.choice
    BY <1>2, <1>3 DEF Worker
  <1>5. TypeOK'
    BY <1>2 DEF AdapterOK
  <1>6. CallsFitControl'
    BY <1>4 DEF CallsFitControl, Allowed, PrerequisiteMet
  <1>7. ChoicesAreNames'
    BY <1>2 DEF AdapterOK, ChoicesAreNames
  <1>8. AttachReadsADesktop'
    BY <1>2, <1>3, <1>4 DEF AttachReadsADesktop, Worker
  <1>9. HealthFitsControl' /\ EnvironmentIffConnected'
    BY DEF HealthFitsControl, EnvironmentIffConnected, IsConnected
  <1> QED
    BY <1>5, <1>6, <1>7, <1>8, <1>9

\* The steps a re-verification can take once its call has answered.
VerifyMove ==
    \/ \E f \in Fault : VerifyFails(f)
    \/ ToLost("none") /\ EndVerify
    \/ /\ health = "SUSPECT"
       /\ \E s \in Stage : ResetFrom(s) /\ (s = "project" \/ chain["project"] # None)
    \/ health = "SUSPECT" /\ Keep("ATTACHED", chain) /\ EndVerify
    \/ health = "ATTACHED" /\ UNCHANGED sessionState /\ EndVerify
    \/ /\ UNCHANGED sessionState
       /\ chain["project"] # None
       /\ \/ /\ health = "SUSPECT"
             /\ \E c \in Name : GoTo("verify_select", stage, c)
          \/ health = "SUSPECT" /\ \E s \in Stage : GoTo("verify_list", s, None)
          \/ /\ health = "ATTACHED"
             /\ \E s \in NameField : chain[s] # None /\ GoTo("resync", s, None)

\* However a stage of the re-verification ends, LifeInv is kept.
LEMMA VerifyMoveLife ==
  ASSUME LifeInv, AdapterOK', call' = NoCall, UNCHANGED served,
         pc \in Verifying, VerifyMove
  PROVE  LifeInv'
  <1> USE DEF LifeInv, TypeOK
  <1>1. NameField \subseteq Stage
    BY DEF NameField
  <1>2. call'.op = "none"
    BY DEF NoCall
  <1>3. health \in {"ATTACHED", "SUSPECT"} /\ environment # None /\ lostCause = "none"
    BY DEF HealthFitsControl, EnvironmentIffConnected, IsConnected
  <1>4. request.op \notin {"none", "attach"}
    BY DEF ChoicesAreNames
  <1>5. \A F : Cleared(chain, F) \in Chain
    BY ClearedType
  <1> DEFINE Settled == /\ TypeOK' /\ CallsFitControl' /\ ChoicesAreNames'
                        /\ HealthFitsControl' /\ EnvironmentIffConnected'
  <1>6. AttachReadsADesktop'
    BY <1>2 DEF AttachReadsADesktop
  <1>7. ASSUME \/ \E f \in Fault : VerifyFails(f)
               \/ ToLost("none") /\ EndVerify
        PROVE  Settled
    <2>1. PICK cause \in LostCause \union {"none"} : ToLost(cause) /\ EndVerify
      BY <1>7 DEF VerifyFails, FaultInVerify, CauseOf
    <2>2. TypeOK'
      BY <2>1, EmptyChainType DEF ToLost, EndVerify, AdapterOK, Health
    <2> QED
      BY <1>2, <1>4, <2>1, <2>2
      DEF ToLost, EndVerify, AdapterOK, CallsFitControl, ChoicesAreNames,
          HealthFitsControl, EnvironmentIffConnected, IsConnected
  <1>8. ASSUME NEW s \in Stage, ResetFrom(s), s = "project" \/ chain["project"] # None,
               health = "SUSPECT"
        PROVE  Settled
    <2>1. TypeOK'
      BY <1>5, <1>8 DEF ResetFrom, Keep, EndVerify, GoTo, AdapterOK, Health
    <2>2. s # "project" => Cleared(chain, ClearFrom[s])["project"] = chain["project"]
      BY DEF Cleared, ClearFrom, Field
    <2>3. CallsFitControl' /\ HealthFitsControl' /\ EnvironmentIffConnected'
      BY <1>2, <1>3, <1>8
      DEF ResetFrom, Keep, EndVerify, GoTo, CallsFitControl, HealthFitsControl,
          EnvironmentIffConnected, IsConnected
    <2>4. ChoicesAreNames'
      BY <1>1, <1>4, <1>8, <2>2
      DEF ResetFrom, Keep, EndVerify, GoTo, AdapterOK, ChoicesAreNames, NameField
    <2> QED
      BY <2>1, <2>3, <2>4
  <1>9. ASSUME \/ health = "SUSPECT" /\ Keep("ATTACHED", chain) /\ EndVerify
               \/ health = "ATTACHED" /\ UNCHANGED sessionState /\ EndVerify
        PROVE  Settled
    <2>1. TypeOK'
      BY <1>9 DEF Keep, EndVerify, AdapterOK, Health, sessionState
    <2> QED
      BY <1>2, <1>3, <1>4, <1>9, <2>1
      DEF Keep, EndVerify, AdapterOK, CallsFitControl, ChoicesAreNames, sessionState,
          HealthFitsControl, EnvironmentIffConnected, IsConnected
  <1>10. ASSUME UNCHANGED sessionState, chain["project"] # None,
                \/ /\ health = "SUSPECT"
                   /\ \E c \in Name : GoTo("verify_select", stage, c)
                \/ health = "SUSPECT" /\ \E s \in Stage : GoTo("verify_list", s, None)
                \/ /\ health = "ATTACHED"
                   /\ \E s \in NameField : chain[s] # None /\ GoTo("resync", s, None)
         PROVE  Settled
    <2>1. TypeOK'
      BY <1>1, <1>10 DEF GoTo, AdapterOK, sessionState
    <2>2. stage \in Stage
      BY DEF CallsFitControl
    <2> QED
      BY <1>1, <1>2, <1>3, <1>4, <1>10, <2>1, <2>2
      DEF GoTo, AdapterOK, CallsFitControl, ChoicesAreNames, sessionState,
          HealthFitsControl, EnvironmentIffConnected, IsConnected
  <1> QED
    BY <1>6, <1>7, <1>8, <1>9, <1>10 DEF VerifyMove

\* The answer of the re-verification's listing keeps LifeInv.
LEMMA VerifyListedLife ==
  ASSUME LifeInv, VerifyListed
  PROVE  VerifyMove /\ LifeInv'
  <1> USE DEF LifeInv, TypeOK
  <1>1. /\ pc = "verify_list" /\ stage \in Stage /\ health = "SUSPECT"
        /\ call.op \in {"none", "list"}
        /\ stage # "project" => chain["project"] # None
    BY DEF VerifyListed, CallsFitControl, HealthFitsControl, ChoicesAreNames
  <1>2. PICK r \in Outcomes(call) :
          /\ Answer(r)
          /\ \/ r.kind \in Fault /\ VerifyFails(r.kind)
             \/ ToLost("none") /\ EndVerify
             \/ stage # "project" /\ ResetFrom(stage)
             \/ Keep("ATTACHED", chain) /\ EndVerify
             \/ chain["project"] # None /\ ResetFrom(stage)
             \/ /\ r.kind = "ok" /\ chain["project"] # None
                /\ \E c \in PresentChoices(r.options) : GoTo("verify_select", stage, c)
                /\ UNCHANGED sessionState
    BY DEF VerifyListed
  <1>3. AdapterOK' /\ call' = NoCall /\ call.op = "list" /\ call.stage = stage
    BY <1>1, <1>2, AnswerType DEF AdapterOK, ChoicesAreNames, CallsFitControl, WellFormed, NoCall
  <1>4. ASSUME r.kind = "ok", NEW c \in PresentChoices(r.options)
        PROVE  c \in Name
    <2>1. r \in Values(call)
      BY <1>2, <1>4, OutcomeFacts DEF AdapterTypeOK
    <2>2. r.options \in Listings(call)
      BY <1>3, <2>1 DEF Values
    <2>3. r.options \subseteq {Option(n) : n \in Choices[stage]}
      BY <1>3, <2>2 DEF Listings
    <2>4. PICK o \in r.options : c = o.value
      BY <1>4 DEF PresentChoices
    <2>5. PICK n \in Choices[stage] : o = Option(n)
      BY <2>3, <2>4
    <2> QED
      BY <1>1, <2>4, <2>5, ChainAssumption, AdapterAssumption DEF Option
  <1>5. VerifyMove
    BY <1>1, <1>2, <1>4 DEF VerifyMove
  <1> QED
    BY <1>1, <1>3, <1>5, VerifyMoveLife DEF VerifyListed

\* The answer of the re-verification's select keeps LifeInv.
LEMMA VerifySelectedLife ==
  ASSUME LifeInv, VerifySelected
  PROVE  VerifyMove /\ LifeInv'
  <1> USE DEF LifeInv, TypeOK
  <1>1. /\ pc = "verify_select" /\ stage \in Stage /\ health = "SUSPECT"
        /\ chain["project"] # None
    BY DEF VerifySelected, CallsFitControl, HealthFitsControl, ChoicesAreNames
  <1>2. PICK r \in Outcomes(call) :
          /\ Answer(r)
          /\ \/ r.kind \in Fault /\ VerifyFails(r.kind)
             \/ ResetFrom(stage)
             \/ Confirmed
    BY DEF VerifySelected
  <1>3. AdapterOK' /\ call' = NoCall
    BY <1>2, AnswerType DEF AdapterOK, ChoicesAreNames, WellFormed, NoCall
  <1>4. NextStage[stage] \in Stage \union {"end"}
    BY <1>1 DEF NextStage
  <1>5. VerifyMove
    BY <1>1, <1>2, <1>4 DEF VerifyMove, Confirmed
  <1> QED
    BY <1>1, <1>3, <1>5, VerifyMoveLife DEF VerifySelected

\* The answer of a resync select keeps LifeInv.
LEMMA ResyncedLife ==
  ASSUME LifeInv, Resynced
  PROVE  VerifyMove /\ LifeInv'
  <1> USE DEF LifeInv, TypeOK
  <1>1. /\ pc = "resync" /\ stage \in NameField /\ health = "ATTACHED"
        /\ chain["project"] # None
    BY DEF Resynced, HealthFitsControl, ChoicesAreNames
  <1>2. PICK r \in Outcomes(call) :
          /\ Answer(r)
          /\ \/ r.kind \in Fault /\ VerifyFails(r.kind)
             \/ ToLost("none") /\ EndVerify
             \/ UNCHANGED sessionState /\ EndVerify
             \/ /\ UNCHANGED sessionState
                /\ NextStage[stage] # "variation" /\ chain[NextStage[stage]] # None
                /\ GoTo("resync", NextStage[stage], None)
    BY DEF Resynced
  <1>3. AdapterOK' /\ call' = NoCall
    BY <1>2, AnswerType DEF AdapterOK, ChoicesAreNames, WellFormed, NoCall
  <1>4. NextStage[stage] # "variation" => NextStage[stage] \in NameField
    BY <1>1 DEF NextStage, NameField
  <1>5. VerifyMove
    BY <1>1, <1>2, <1>4 DEF VerifyMove
  <1> QED
    BY <1>1, <1>3, <1>5, VerifyMoveLife DEF Resynced

\* The end of an attach keeps LifeInv.
LEMMA AttachedLife ==
  ASSUME LifeInv, Attached
  PROVE  LifeInv'
  <1> USE DEF LifeInv, TypeOK
  <1>1. PICK r \in Outcomes(call) :
          /\ Answer(r)
          /\ \/ UNCHANGED sessionState
             \/ /\ health' = "DETACHED" /\ chain' = EmptyChain
                /\ lastProcessId' = call.handle /\ lostCause' = "none" /\ environment' = None
             \/ /\ r.kind = "ok"
                /\ health' = "ATTACHED" /\ chain' = OnlyProcess(call.handle)
                /\ lastProcessId' = call.handle /\ lostCause' = "none"
                /\ environment' = r.environment
    BY DEF Attached, sessionState
  <1>2. AdapterOK' /\ call' = NoCall
    BY <1>1, AnswerType DEF AdapterOK, ChoicesAreNames, WellFormed, NoCall
  <1>3. /\ call.op = "attach" /\ call \in Worker
        /\ call.handle \in Process
    BY DEF Attached, CallsFitControl, ChoicesAreNames, WellFormed, AdapterTypeOK
  <1>4. /\ r.kind = "ok" => r.environment = desktop /\ desktop \in Process
        /\ None \notin Process
    BY <1>1, <1>3, OutcomeFacts, ChainAssumption DEF Values, AttachReadsADesktop, AdapterTypeOK
  <1>5. pc' = "idle" /\ UNCHANGED <<request, stage, token, served>> /\ justVerified' = FALSE
    BY DEF Attached, Return
  <1>6. TypeOK'
    BY <1>1, <1>2, <1>3, <1>4, <1>5, EmptyChainType DEF AdapterOK, sessionState, Health, LostCause
  <1>7. CallsFitControl' /\ AttachReadsADesktop' /\ HealthFitsControl'
    BY <1>2, <1>5 DEF NoCall, CallsFitControl, AttachReadsADesktop, HealthFitsControl
  <1>8. ChoicesAreNames'
    BY <1>2, <1>5 DEF AdapterOK, ChoicesAreNames
  <1>9. EnvironmentIffConnected'
    BY <1>1, <1>4 DEF EnvironmentIffConnected, IsConnected, sessionState
  <1> QED
    BY <1>6, <1>7, <1>8, <1>9

\* A read that was served came through a handle, of a named project and design.
LEMMA ReadServed ==
  ASSUME LifeInv, NEW r \in Outcomes(call), r.kind = "ok",
         call.op \in {"inspect", "validate_native"}
  PROVE  /\ r.handle = call.handle
         /\ call.chain["project"] \in Name /\ call.chain["design"] \in Name
         /\ r.project = Clean[call.chain["project"]]
         /\ r.design = Clean[call.chain["design"]]
  <1>1. call \in Worker
    BY DEF LifeInv, TypeOK, AdapterTypeOK
  <1>2. Declined(call) = "none" /\ r \in Values(call)
    BY <1>1, OutcomeFacts
  <1>3. ~Unscoped(call.chain)
    BY <1>2 DEF Declined, ReadsDesign
  <1>4. call.chain \in Chain
    BY <1>1 DEF Worker
  <1>5. call.chain["project"] \in Name /\ call.chain["design"] \in Name
    BY <1>3, <1>4 DEF Unscoped, Chain, NameField
  <1>6. r = [kind |-> "ok", handle |-> call.handle,
             project |-> Clean[call.chain["project"]],
             design |-> Clean[call.chain["design"]]]
    BY <1>2 DEF Values
  <1> QED
    BY <1>5, <1>6

\* The answer of the request's own operation keeps LifeInv.
LEMMA AnsweredLife ==
  ASSUME LifeInv, Answered
  PROVE  LifeInv'
  <1> USE DEF LifeInv, TypeOK
  <1>1. PICK r \in Outcomes(call) :
          /\ Answer(r)
          /\ \/ r.kind \in Fault /\ FaultInOperation(r.kind) /\ UNCHANGED served
             \/ UNCHANGED <<sessionState, served>>
             \/ r.kind = "ok" /\ request.op = "select"
                  /\ Keep(health, Sanitized(r.chain)) /\ UNCHANGED served
             \/ r.kind = "ok" /\ request.op \in {"inspect", "validate_native"}
                  /\ Serve(r) /\ UNCHANGED sessionState
    BY DEF Answered
  <1>2. AdapterOK' /\ call' = NoCall /\ call.op # "none"
    BY <1>1, AnswerType DEF AdapterOK, ChoicesAreNames, WellFormed, NoCall
  <1>3. call.op = request.op /\ call \in Worker /\ health = "ATTACHED"
    BY <1>2 DEF Answered, CallsFitControl, Allowed, AdapterTypeOK
  <1>4. pc' = "idle" /\ UNCHANGED <<request, stage, token>> /\ justVerified' = FALSE
    BY DEF Answered, Return
  <1>5. r.kind = "ok" /\ request.op = "select" => Sanitized(r.chain) \in Chain
    <2> SUFFICES ASSUME r.kind = "ok", request.op = "select"
                 PROVE  Sanitized(r.chain) \in Chain
      OBVIOUS
    <2>1. r.chain \in Selected(call)
      BY <1>1, <1>3, OutcomeFacts DEF Values
    <2> QED
      BY <1>3, <2>1, SelectedType, SanitizedType DEF ChoicesAreNames, WellFormed
  <1>6. Serve(r) /\ r.kind = "ok" /\ request.op \in {"inspect", "validate_native"}
          => served' \in Served
    BY <1>1, <1>3, ReadServed, ChainAssumption DEF Serve, Served, Value, Worker
  <1>7. ASSUME r.kind \in Fault, FaultInOperation(r.kind)
        PROVE  /\ health' \in {"ATTACHED", "SUSPECT", "LOST"}
               /\ chain' \in Chain
               /\ lostCause' \in LostCause \union {"none"}
               /\ environment' \in Process \union {None}
               /\ UNCHANGED lastProcessId
               /\ EnvironmentIffConnected'
    <2>1. CASE r.kind \in LostCause
      BY <1>7, <2>1, EmptyChainType
      DEF FaultInOperation, ToLost, EnvironmentIffConnected, IsConnected
    <2>2. CASE r.kind \notin LostCause
      BY <1>3, <1>7, <2>2
      DEF FaultInOperation, Keep, EnvironmentIffConnected, IsConnected, sessionState
    <2> QED
      BY <2>1, <2>2
  <1>8. TypeOK'
    BY <1>1, <1>2, <1>4, <1>5, <1>6, <1>7 DEF AdapterOK, Keep, Health, sessionState
  <1>9. CallsFitControl' /\ AttachReadsADesktop' /\ HealthFitsControl'
    BY <1>2, <1>4 DEF NoCall, CallsFitControl, AttachReadsADesktop, HealthFitsControl
  <1>10. ChoicesAreNames'
    BY <1>2, <1>4 DEF AdapterOK, ChoicesAreNames
  <1>11. EnvironmentIffConnected'
    BY <1>1, <1>3, <1>7 DEF Keep, EnvironmentIffConnected, IsConnected, sessionState
  <1> QED
    BY <1>8, <1>9, <1>10, <1>11

-----------------------------------------------------------------------------
(* Part 4: theorems that hold whatever abandoned workers write.            *)

LEMMA InitLife == Init => LifeInv
  <1> SUFFICES ASSUME Init PROVE LifeInv
    OBVIOUS
  <1> USE DEF Init
  <1>1. AdapterTypeOK
    BY EmptyChainType
    DEF AdapterInit, AdapterTypeOK, NoApps, NoCall, Worker, Phase
  <1>2. served \in Served /\ request \in Request
    BY EmptyChainType DEF NotServed, Served, Value, NoRequest, Request
  <1>3. TypeOK
    BY <1>1, <1>2, EmptyChainType DEF TypeOK, Health
  <1>4. call.op = "none" /\ call.at = "none" /\ request.op = "none" /\ orphans = {}
    BY DEF AdapterInit, NoCall, NoRequest
  <1>5. CallsFitControl /\ ChoicesAreNames /\ AttachReadsADesktop
    BY <1>4 DEF CallsFitControl, ChoicesAreNames, WellFormed, AttachReadsADesktop
  <1>6. HealthFitsControl /\ EnvironmentIffConnected
    BY DEF HealthFitsControl, EnvironmentIffConnected, IsConnected
  <1> QED
    BY <1>3, <1>5, <1>6 DEF LifeInv

\* LifeInv is inductive.
LEMMA NextLife == LifeInv /\ [Next]_vars => LifeInv'
  <1> SUFFICES ASSUME LifeInv, [Next]_vars PROVE LifeInv'
    OBVIOUS
  <1>1. CASE Receive
    BY <1>1, ReceiveLife
  <1>2. CASE CallVerifyList \/ CallVerifySelect \/ CallResync \/ CallBody
    BY <1>2, CallLife
  <1>3. CASE Refuse
    BY <1>3, RefuseLife
  <1>4. CASE VerifyListed \/ VerifySelected \/ Resynced
    BY <1>4, VerifyListedLife, VerifySelectedLife, ResyncedLife
  <1>5. CASE Attached
    BY <1>5, AttachedLife
  <1>6. CASE Answered
    BY <1>6, AnsweredLife
  <1>7. CASE Workers
    BY <1>7, WorkersLife
  <1>8. CASE UNCHANGED vars
    BY <1>8 DEF vars, adapterVars, sessionState, control, LifeInv, TypeOK, AdapterTypeOK,
                CallsFitControl, ChoicesAreNames, WellFormed, Allowed, PrerequisiteMet,
                AttachReadsADesktop, HealthFitsControl, EnvironmentIffConnected, IsConnected
  <1> QED
    BY <1>1, <1>2, <1>3, <1>4, <1>5, <1>6, <1>7, <1>8 DEF Next, Progress

\* The invariant the rest follows from: which call can be in flight where, what a
\* re-verification may be doing, and that a connected session has an environment.
THEOREM LifeInvariant == Spec => []LifeInv
  BY InitLife, NextLife, PTL DEF Spec

\* The session and the adapter keep well-typed state, whatever the adapter
\* answers and whenever its abandoned workers write.
THEOREM SessionTyped == Spec => []TypeOK
  <1>1. LifeInv => TypeOK
    BY DEF LifeInv
  <1> QED
    BY <1>1, LifeInvariant, PTL

\* Provenance always has an environment to stamp while a process is attached, and
\* never one that outlived its session, even when abandoned workers go on
\* writing into the adapter.
THEOREM EnvironmentExactlyWhileConnected == Spec => []EnvironmentIffConnected
  <1>1. LifeInv => EnvironmentIffConnected
    BY DEF LifeInv
  <1> QED
    BY <1>1, LifeInvariant, PTL

\* A re-verification ends ATTACHED or LOST, and only its own calls reach the
\* adapter while it runs, whatever the adapter answers.
THEOREM VerificationConcludes == Spec => VerifyConcludes
  <1> DEFINE Step == /\ (pc \in Verifying /\ pc' \notin Verifying)
                          => health' \in {"ATTACHED", "LOST"}
                     /\ pc \in Verifying => call'.op \in {"none", "list", "select"}
  <1>1. ASSUME LifeInv, [Next]_vars
        PROVE  Step
    <2>1. NoCall.op = "none"
      BY DEF NoCall
    <2>2. pc \in Verifying => call.op \in {"none", "list", "select"}
      BY <1>1 DEF LifeInv, CallsFitControl
    <2>3. CASE VerifyListed \/ VerifySelected \/ Resynced
      <3>1. VerifyMove /\ LifeInv'
        BY <1>1, <2>3, VerifyListedLife, VerifySelectedLife, ResyncedLife
      <3>2. call' = NoCall /\ pc \in Verifying
        BY <2>3 DEF VerifyListed, VerifySelected, Resynced, Answer
      <3>3. pc' \in Verifying \/ health' \in {"ATTACHED", "LOST"}
        BY <3>1 DEF VerifyMove, VerifyFails, FaultInVerify, ToLost, ResetFrom, Keep,
                    EndVerify, GoTo, sessionState
      <3> QED
        BY <2>1, <3>2, <3>3
    <2>4. CASE CallVerifyList \/ CallVerifySelect \/ CallResync \/ CallBody
      BY <1>1, <2>4, CallLife
      DEF LifeInv, CallsFitControl, CallVerifyList, CallVerifySelect, CallResync, CallBody,
          Calling, control
    <2>5. CASE Workers \/ UNCHANGED vars
      <3>1. UNCHANGED pc
        BY <2>5 DEF Workers, control, vars
      <3>2. LifeInv'
        BY <1>1, NextLife
      <3> QED
        BY <3>1, <3>2 DEF LifeInv, CallsFitControl
    <2>6. CASE Receive \/ Refuse \/ Attached \/ Answered
      <3>1. pc \notin Verifying
        BY <2>6 DEF Receive, Attach, ListSelectionOptions, Select, Inspect, ValidateNative,
                    Guarded, Idle, Refuse, Attached, Answered
      <3> QED
        BY <3>1
    <2> QED
      BY <1>1, <2>3, <2>4, <2>5, <2>6 DEF Next, Progress
  <1>2. (LifeInv /\ [Next]_vars) => [Step]_vars
    BY <1>1
  <1> QED
    BY <1>2, InitLife, NextLife, PTL DEF Spec, VerifyConcludes
-----------------------------------------------------------------------------
(* Part 5: a request is one step of the broker's session.                  *)

\* Where the request's last step may leave the status it began from.
LEMMA EndMoves ==
  ASSUME LifeInv, LifeInv', BeganFitsControl, pc' = "idle", began' = began,
         \/ pc \in {"attach", "body"} /\ UNCHANGED <<health, lostCause>>
         \/ pc = "attach" /\ health' \in {"DETACHED", "ATTACHED"}
         \/ pc = "body" /\ health = "ATTACHED" /\ health' \in {"ATTACHED", "SUSPECT", "LOST"}
  PROVE  Dispatched!MoveSession \/ UNCHANGED <<Shown.health, Shown.lostCause>>
  <1>1. /\ health \in Health /\ health' \in Health
        /\ lostCause' \in LostCause \union {"none"}
        /\ health' # "LOST" => lostCause' = "none"
    BY DEF LifeInv, TypeOK, EnvironmentIffConnected
  <1>2. Shown = began /\ Shown'.health = health' /\ Shown'.lostCause = lostCause'
    BY DEF Shown, Status
  <1>3. Dispatched!LostCause = LostCause
    BY DEF Dispatched!LostCause, LostCause
  <1>4. CASE began = Status /\ UNCHANGED <<health, lostCause>>
    BY <1>2, <1>4 DEF Status
  <1>5. CASE began = Status /\ ~UNCHANGED <<health, lostCause>>
    <2>1. began.health = health
      BY <1>5 DEF Status
    <2>2. \/ health' \in {"DETACHED", "ATTACHED"}
          \/ health = "ATTACHED" /\ health' \in {"ATTACHED", "SUSPECT", "LOST"}
      BY <1>5
    <2>3. health' \in Dispatched!Moves[health]
      BY <1>1, <2>2 DEF Dispatched!Moves, Dispatched!Health, Health
    <2>4. health = "LOST" => health' # "LOST"
      BY <2>2
    <2> QED
      BY <1>1, <1>2, <1>3, <2>1, <2>3, <2>4 DEF Dispatched!MoveSession
  <1>6. CASE began.health = "SUSPECT"
    <2>1. health' \in Dispatched!Moves[began.health]
      BY <1>1, <1>6 DEF Dispatched!Moves, Dispatched!Health, Health
    <2> QED
      BY <1>1, <1>2, <1>3, <1>6, <2>1 DEF Dispatched!MoveSession
  <1> QED
    BY <1>4, <1>5, <1>6 DEF BeganFitsControl

\* A re-verification leaves a suspect session's status as it was, or ends it.
LEMMA VerifyKeepsBegan ==
  ASSUME LifeInv, BeganFitsControl, VerifyListed \/ VerifySelected \/ Resynced, began' = began
  PROVE  BeganFitsControl' /\ Shown' = Shown
  <1>1. /\ pc \in {"verify_list", "verify_select", "resync"}
        /\ health = IF pc = "resync" THEN "ATTACHED" ELSE "SUSPECT"
        /\ began.health = "SUSPECT"
        /\ health = "SUSPECT" => began = Status
    BY DEF VerifyListed, VerifySelected, Resynced, LifeInv, HealthFitsControl,
           BeganFitsControl, Status
  <1>2. VerifyMove
    BY VerifyListedLife, VerifySelectedLife, ResyncedLife
  <1>3. \/ pc' = "body" /\ health' \in {"ATTACHED", "LOST"}
        \/ pc' = "resync"
        \/ pc' \in {"verify_list", "verify_select"} /\ health = "SUSPECT"
             /\ UNCHANGED <<health, lostCause>>
    BY <1>2 DEF VerifyMove, VerifyFails, FaultInVerify, ToLost, ResetFrom, Keep,
                EndVerify, GoTo, sessionState
  <1>4. pc' # "idle" /\ Shown' = Shown
    BY <1>1, <1>3 DEF Shown
  <1>5. UNCHANGED <<health, lostCause>> => Status' = Status
    BY DEF Status
  <1> QED
    BY <1>1, <1>3, <1>4, <1>5 DEF BeganFitsControl

\* Every step of a request keeps the status shown, or is its last.
LEMMA RequestStep ==
  ASSUME LifeInv, BeganFitsControl, [RequestNext]_<<vars, began>>
  PROVE  /\ BeganFitsControl'
         /\ Dispatched!MoveSession \/ UNCHANGED <<Shown.health, Shown.lostCause>>
  <1>1. CASE Receive /\ RequestNext
    <2>1. /\ pc = "idle" /\ began' = Status /\ UNCHANGED <<health, lostCause>>
          /\ pc' \in {"attach", "verify_list", "body"}
      BY <1>1 DEF Receive, Attach, ListSelectionOptions, Select, Inspect, ValidateNative,
                  Guarded, Idle, sessionState, RequestNext
    <2>2. Status' = Status /\ began' = Status'
      BY <2>1 DEF Status
    <2>3. Shown' = Shown
      BY <2>1 DEF Shown
    <2> QED
      BY <2>1, <2>2, <2>3 DEF BeganFitsControl
  <1>2. CASE /\ CallVerifyList \/ CallVerifySelect \/ CallResync \/ CallBody \/ Workers
             /\ RequestNext
    <2>1. UNCHANGED <<pc, health, lostCause>>
          /\ began' = IF pc = "idle" THEN Status ELSE began
      BY <1>2 DEF CallVerifyList, CallVerifySelect, CallResync, CallBody, Calling, Workers,
                  control, sessionState, RequestNext
    <2>2. Status' = Status
      BY <2>1 DEF Status
    <2> QED
      BY <2>1, <2>2 DEF BeganFitsControl, Shown
  <1>3. CASE (VerifyListed \/ VerifySelected \/ Resynced) /\ RequestNext
    <2>1. pc # "idle"
      BY <1>3 DEF VerifyListed, VerifySelected, Resynced
    <2>2. began' = began
      BY <1>3, <2>1 DEF RequestNext
    <2> QED
      BY <1>3, <2>2, VerifyKeepsBegan
  <1>4. CASE (Refuse \/ Attached \/ Answered) /\ RequestNext
    <2>1. LifeInv'
      BY <1>4, RefuseLife, AttachedLife, AnsweredLife
    <2>2. pc \in {"attach", "body"} /\ pc' = "idle"
      BY <1>4 DEF Refuse, Attached, Answered, Return
    <2>3. began' = began
      BY <1>4, <2>2 DEF RequestNext
    <2>4. CASE Refuse
      BY <2>1, <2>2, <2>3, <2>4, EndMoves DEF Refuse, sessionState, BeganFitsControl
    <2>5. CASE Attached
      <3>1. pc = "attach" /\ (UNCHANGED sessionState \/ health' \in {"DETACHED", "ATTACHED"})
        BY <2>5 DEF Attached
      <3> QED
        BY <2>1, <2>2, <2>3, <3>1, EndMoves DEF sessionState, BeganFitsControl
    <2>6. CASE Answered
      <3>1. pc = "body" /\ call.op # "none"
        BY <2>6 DEF Answered, Answer
      <3>2. health = "ATTACHED"
        BY <3>1 DEF LifeInv, CallsFitControl, Allowed
      <3>3. health' \in {"ATTACHED", "SUSPECT", "LOST"}
        BY <2>6, <3>2 DEF Answered, FaultInOperation, ToLost, Keep, sessionState
      <3> QED
        BY <2>1, <2>2, <2>3, <3>1, <3>2, <3>3, EndMoves DEF BeganFitsControl
    <2> QED
      BY <1>4, <2>4, <2>5, <2>6
  <1>5. CASE UNCHANGED <<vars, began>>
    <2>1. UNCHANGED <<pc, health, lostCause, began>>
      BY <1>5 DEF vars, control, sessionState
    <2>2. Status' = Status
      BY <2>1 DEF Status
    <2> QED
      BY <2>1, <2>2 DEF BeganFitsControl, Shown
  <1> QED
    BY <1>1, <1>2, <1>3, <1>4, <1>5 DEF RequestNext, Next, Progress

\* From its arrival to its answer a request does to the session's status what the
\* broker's model of a session operation allows, whatever late workers write: the
\* broker's theorems are about this session.
THEOREM RequestsAreSessionOperations == RequestSpec => RequestsMoveTheStatus
  <1>1. RequestInit => LifeInv /\ BeganFitsControl /\ Dispatched!StatusInit
    <2>1. RequestInit => LifeInv
      BY InitLife DEF RequestInit
    <2>2. RequestInit => BeganFitsControl /\ Dispatched!StatusInit
      BY DEF RequestInit, Init, BeganFitsControl, Shown, Status, Dispatched!StatusInit
    <2> QED
      BY <2>1, <2>2
  <1>2. LifeInv /\ [RequestNext]_<<vars, began>> => LifeInv'
    <2>1. [RequestNext]_<<vars, began>> => [Next]_vars
      BY DEF RequestNext
    <2> QED
      BY <2>1, NextLife
  <1>3. LifeInv /\ BeganFitsControl /\ [RequestNext]_<<vars, began>>
          => BeganFitsControl' /\ [Dispatched!MoveSession]_<<Shown.health, Shown.lostCause>>
    BY RequestStep
  <1> QED
    BY <1>1, <1>2, <1>3, PTL DEF RequestSpec, RequestsMoveTheStatus, Dispatched!StatusSpec
=============================================================================
