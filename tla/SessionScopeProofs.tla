-------------------------- MODULE SessionScopeProofs ------------------------
(***************************************************************************)
(* Proofs about scope, when callers wait for abandoned workers: ScopeInv   *)
(* is inductive, so every design read is served under its own stamp, and   *)
(* the session implements the lifecycle.                                   *)
(***************************************************************************)
EXTENDS SessionProofs

USE DEF Op, Stage, PC, Verifying

-----------------------------------------------------------------------------
(* Part 1: what selecting, clearing and sanitising do to a selection.      *)

LEMMA CleanName ==
  ASSUME NEW n \in Name
  PROVE  Clean[n] \in Name /\ Clean[n] # None /\ Clean[Clean[n]] = Clean[n]
  BY ChainAssumption

\* Sanitising cleans the names of a chain, touches nothing else, and is idempotent.
LEMMA SanitizedFields ==
  ASSUME NEW c \in Chain
  PROVE  /\ \A f \in NameField : c[f] \in Name => Sanitized(c)[f] = Clean[c[f]]
         /\ \A f \in Field \ NameField : Sanitized(c)[f] = c[f]
         /\ \A f \in Field : Sanitized(c)[f] = None <=> c[f] = None
         /\ Sanitized(Sanitized(c)) = Sanitized(c)
  <1>1. \A f \in NameField : c[f] # None => c[f] \in Name
    BY DEF Chain
  <1>2. None \notin Name
    BY ChainAssumption
  <1>3. NameField \subseteq Field
    BY DEF NameField, Field
  <1>4. \A f \in Field : Sanitized(c)[f] = IF f \in NameField /\ c[f] # None
                                             THEN Clean[c[f]] ELSE c[f]
    BY DEF Sanitized
  <1>5. \A f \in NameField : c[f] \in Name => Sanitized(c)[f] = Clean[c[f]]
    BY <1>2, <1>3, <1>4
  <1>6. \A f \in Field \ NameField : Sanitized(c)[f] = c[f]
    BY <1>4
  <1>7. \A f \in Field : Sanitized(c)[f] = None <=> c[f] = None
    BY <1>1, <1>4, CleanName
  <1>8. \A f \in Field : Sanitized(Sanitized(c))[f] = Sanitized(c)[f]
    <2> SUFFICES ASSUME NEW f \in Field
                 PROVE  Sanitized(Sanitized(c))[f] = Sanitized(c)[f]
      OBVIOUS
    <2>1. Sanitized(Sanitized(c))[f] = IF f \in NameField /\ Sanitized(c)[f] # None
                                         THEN Clean[Sanitized(c)[f]] ELSE Sanitized(c)[f]
      BY DEF Sanitized
    <2> QED
      BY <2>1, <1>1, <1>4, CleanName
  <1>9. Sanitized(Sanitized(c)) = Sanitized(c)
    BY <1>8 DEF Sanitized
  <1> QED
    BY <1>5, <1>6, <1>7, <1>9

\* Clearing a set of fields empties them and no other, and keeps a chain clean.
LEMMA ClearedFields ==
  ASSUME NEW c \in Chain, NEW F, Sanitized(c) = c
  PROVE  /\ \A f \in Field : Cleared(c, F)[f] = IF f \in F THEN None ELSE c[f]
         /\ Sanitized(Cleared(c, F)) = Cleared(c, F)
  <1>1. \A f \in Field : Cleared(c, F)[f] = IF f \in F THEN None ELSE c[f]
    BY DEF Cleared
  <1>2. \A f \in Field : Sanitized(c)[f] = IF f \in NameField /\ c[f] # None
                                             THEN Clean[c[f]] ELSE c[f]
    BY DEF Sanitized
  <1>3. \A f \in Field : Sanitized(Cleared(c, F))[f] = Cleared(c, F)[f]
    <2> SUFFICES ASSUME NEW f \in Field
                 PROVE  Sanitized(Cleared(c, F))[f] = Cleared(c, F)[f]
      OBVIOUS
    <2>1. Sanitized(Cleared(c, F))[f] = IF f \in NameField /\ Cleared(c, F)[f] # None
                                          THEN Clean[Cleared(c, F)[f]] ELSE Cleared(c, F)[f]
      BY DEF Sanitized
    <2> QED
      BY <1>1, <1>2, <2>1
  <1>4. Sanitized(Cleared(c, F)) = Cleared(c, F)
    BY <1>3 DEF Sanitized, Cleared
  <1> QED
    BY <1>1, <1>4

\* A chain below a cleared process is clean already.
LEMMA CleanChains ==
  /\ Sanitized(EmptyChain) = EmptyChain
  /\ \A p : Sanitized(OnlyProcess(p)) = OnlyProcess(p)
  <1>1. \A f \in NameField : EmptyChain[f] = None
    BY DEF EmptyChain, NameField, Field
  <1>2. \A p : /\ OnlyProcess(p) = [f \in Field |-> IF f = "process_id" THEN p ELSE None]
               /\ \A f \in NameField : OnlyProcess(p)[f] = None
    BY DEF OnlyProcess, EmptyChain, NameField, Field
  <1>3. Sanitized(EmptyChain) = EmptyChain
    BY <1>1 DEF Sanitized, EmptyChain
  <1>4. ASSUME NEW p
        PROVE  Sanitized(OnlyProcess(p)) = OnlyProcess(p)
    <2>1. \A f \in Field : (IF f \in NameField /\ OnlyProcess(p)[f] # None
                              THEN Clean[OnlyProcess(p)[f]] ELSE OnlyProcess(p)[f])
                           = IF f = "process_id" THEN p ELSE None
      BY <1>2 DEF NameField
    <2>2. Sanitized(OnlyProcess(p)) = [f \in Field |-> IF f = "process_id" THEN p ELSE None]
      BY <2>1 DEF Sanitized
    <2> QED
      BY <1>2, <2>2
  <1> QED
    BY <1>3, <1>4

\* The value a selection keeps.
ValueOf(w) == IF w.stage = "variation" THEN HashOf[w.choice] ELSE w.choice

\* A select keeps the process and the selections above its stage, sets the
\* stage, and clears those below.
LEMMA SelectedFields ==
  ASSUME NEW w \in Worker, w.choice \in Name, NEW c \in Selected(w)
  PROVE  /\ c[w.stage] = ValueOf(w)
         /\ c[w.stage] # None
         /\ \A f \in SelectionField \ {w.stage} :
                c[f] = IF f \in DownstreamOf[w.stage] THEN None ELSE w.chain[f]
  <1>1. w.stage \in Stage /\ w.chain \in Chain /\ w.stage \in Field
    BY DEF Worker, Field
  <1>2. SelectionField \subseteq Field \ {"path", "solution_type"}
    BY DEF SelectionField, Field
  <1> DEFINE d == WithStage(w.chain, w.stage, ValueOf(w))
  <1> HIDE DEF d
  <1>3. d = [f \in Field |-> IF f = w.stage THEN ValueOf(w)
                            ELSE IF f \in DownstreamOf[w.stage] THEN None ELSE w.chain[f]]
    BY <1>1 DEF d, WithStage, Cleared
  <1>4. \/ c = d
        \/ \E v : c = [d EXCEPT !["path"] = v]
        \/ \E v : c = [d EXCEPT !["solution_type"] = v]
    BY <1>1 DEF d, Selected, ValueOf
  <1>5. \A f \in SelectionField : c[f] = d[f]
    <2> SUFFICES ASSUME NEW f \in SelectionField
                 PROVE  c[f] = d[f]
      OBVIOUS
    <2>1. f \in Field /\ f # "path" /\ f # "solution_type"
      BY <1>2
    <2>2. f \in DOMAIN d
      BY <1>3, <2>1
    <2>3. ASSUME NEW v, c = [d EXCEPT !["path"] = v]
          PROVE  c[f] = d[f]
      BY <2>1, <2>2, <2>3
    <2>4. ASSUME NEW v, c = [d EXCEPT !["solution_type"] = v]
          PROVE  c[f] = d[f]
      BY <2>1, <2>2, <2>4
    <2> QED
      BY <1>4, <2>3, <2>4, Zenon
  <1>6. ValueOf(w) # None
    BY ChainAssumption DEF ValueOf
  <1> QED
    BY <1>1, <1>2, <1>3, <1>5, <1>6 DEF SelectionField

Ordered(c) == \A s \in Stage : c[s] # None => c[Upstream[s]] # None

\* Selecting a stage again, with the choice the session kept, brings the adapter
\* one stage further, and all the way when nothing is selected below.
LEMMA ReselectAgrees ==
  ASSUME NEW w \in Worker, w.choice \in Name, NEW c \in Selected(w), NEW d \in Chain,
         SameSelection(Sanitized(w.chain), d, Above[w.stage]),
         Sanitized(c)[w.stage] = d[w.stage]
  PROVE  /\ SameSelection(Sanitized(c), d, Above[NextStage[w.stage]])
         /\ (Ordered(d) /\ (NextStage[w.stage] = "end" \/ d[NextStage[w.stage]] = None))
              => SameSelection(Sanitized(c), d, Above["end"])
  <1>1. /\ w.stage \in Stage /\ w.chain \in Chain /\ c \in Chain
        /\ SelectionField = {"process_id"} \union Stage
    BY SelectedType DEF Worker, SelectionField
  <1>2. \A f \in Above[w.stage] : f \in SelectionField \ {w.stage} /\ f \notin DownstreamOf[w.stage]
    BY <1>1 DEF Above, DownstreamOf
  <1>3. \A f \in Above[w.stage] : c[f] = w.chain[f]
    BY <1>2, SelectedFields
  <1>4. \A f \in SelectionField : \A x, y \in Chain :
            x[f] = y[f] => Sanitized(x)[f] = Sanitized(y)[f]
    BY <1>1 DEF Sanitized, Field
  <1>5. \A f \in Above[w.stage] : Sanitized(c)[f] = d[f]
    BY <1>1, <1>2, <1>3, <1>4 DEF SameSelection
  <1>6. \A f \in Stage \intersect DownstreamOf[w.stage] : Sanitized(c)[f] = None
    <2>1. \A f \in Stage \intersect DownstreamOf[w.stage] :
            f \in SelectionField \ {w.stage} /\ f \in Field
      BY <1>1 DEF DownstreamOf, Field
    <2> QED
      BY <1>1, <2>1, SelectedFields, SanitizedFields
  <1>7. Above[NextStage[w.stage]] = Above[w.stage] \union {w.stage}
    BY <1>1 DEF Above, NextStage
  <1>8. SameSelection(Sanitized(c), d, Above[NextStage[w.stage]])
    BY <1>5, <1>7 DEF SameSelection
  <1>9. ASSUME Ordered(d), NextStage[w.stage] = "end" \/ d[NextStage[w.stage]] = None
        PROVE  SameSelection(Sanitized(c), d, Above["end"])
    <2>1. \A f \in Stage \intersect DownstreamOf[w.stage] : d[f] = None
      BY <1>1, <1>9 DEF Ordered, Upstream, NextStage, DownstreamOf
    <2>2. Above["end"] = Above[w.stage] \union {w.stage}
                           \union (Stage \intersect DownstreamOf[w.stage])
      BY <1>1 DEF Above, DownstreamOf
    <2> QED
      BY <1>5, <1>6, <2>1, <2>2 DEF SameSelection
  <1> QED
    BY <1>8, <1>9

\* Clearing from a stage keeps the guided order.
LEMMA ClearedOrdered ==
  ASSUME NEW d \in Chain, Ordered(d), NEW s \in Stage
  PROVE  Ordered(Cleared(d, ClearFrom[s]))
  <1> DEFINE e == Cleared(d, ClearFrom[s])
  <1>1. \A f \in Field : e[f] = IF f \in ClearFrom[s] THEN None ELSE d[f]
    BY DEF Cleared
  <1> HIDE DEF e
  <1>2. \A t \in Stage : /\ t \in Field /\ Upstream[t] \in Field
                         /\ Upstream[t] \in ClearFrom[s] => t \in ClearFrom[s]
    BY DEF Field, Upstream, ClearFrom
  <1>3. Ordered(e)
    BY <1>1, <1>2 DEF Ordered
  <1> QED
    BY <1>3 DEF e

-----------------------------------------------------------------------------
(* Part 2: answers.                                                        *)

\* What ScopeInv says of a call in flight, and an answer of what follows it.
LEMMA AnswerScope ==
  ASSUME ScopeInv, NEW r, Answer(r)
  PROVE  /\ call.op # "none" /\ call \in Worker
         /\ call' = NoCall /\ call'.op = "none"
         /\ UNCHANGED <<desktop, apps>>
         /\ r \in Outcomes(call)
         /\ orphans' \subseteq {call}
         /\ r.kind # "timeout" => orphans' = {}
         /\ r.kind = "ok" /\ call.op = "select" =>
                call.choice \in Name /\ r.chain \in Selected(call) /\ selection' = r.chain
         /\ ~(r.kind = "ok" /\ call.op = "select") => UNCHANGED selection
  <1>1. call.op # "none" /\ call' = NoCall /\ UNCHANGED <<desktop, apps>> /\ r \in Outcomes(call)
    BY DEF Answer
  <1>2. orphans = {} /\ call \in Worker
    BY <1>1 DEF ScopeInv, OrphansOutsideRequests, LifeInv, TypeOK, AdapterTypeOK
  <1>3. r.kind = "ok" /\ call.op = "select" => call.choice \in Name /\ r.chain \in Selected(call)
    BY <1>1, <1>2, OutcomeFacts DEF Values, ScopeInv, LifeInv, ChoicesAreNames, WellFormed
  <1> QED
    BY <1>1, <1>2, <1>3 DEF Answer, NoCall

\* An answer that leaves the session of the same process, or of none, keeps the
\* adapter of one process.
LEMMA AfterAnswer ==
  ASSUME ScopeInv, LifeInv', NEW r, Answer(r),
         health' = "ATTACHED" \/ pc' \notin {"idle", "body"} => r.kind # "timeout",
         IsConnected' => /\ IsConnected
                         /\ call.op # "attach"
                         /\ environment' = environment
                         /\ chain'["process_id"] = chain["process_id"],
         ChainIsClean', GuidedOrder', VerifiedSoFar', ScopesAgree', ServedUnderItsStamp'
  PROVE  ScopeInv'
  <1>1. /\ call.op # "none" /\ call \in Worker
        /\ call' = NoCall /\ call'.op = "none"
        /\ UNCHANGED <<desktop, apps>>
        /\ orphans' \subseteq {call}
        /\ r.kind # "timeout" => orphans' = {}
    BY AnswerScope
  <1>2. OrphansOutsideRequests'
    BY <1>1 DEF OrphansOutsideRequests
  <1>3. FreshlyAttached' /\ CallsSeeTheSelection' /\ ~Rebinding'
    BY <1>1 DEF FreshlyAttached, CallsSeeTheSelection, Rebinding
  <1>4. OneProcess'
    <2> SUFFICES ASSUME IsConnected'
                 PROVE  /\ chain'["process_id"] # None
                        /\ chain'["process_id"] = desktop
                        /\ selection'["process_id"] = desktop
                        /\ environment' = desktop
                        /\ \A k \in Name \X Name : apps[k] \in {None, desktop}
                        /\ \A w \in orphans' : /\ w.op # "attach"
                                               /\ w.handle = desktop
                                               /\ w.chain["process_id"] = desktop
      BY <1>1 DEF OneProcess
    <2>1. /\ chain["process_id"] # None /\ chain["process_id"] = desktop
          /\ selection["process_id"] = desktop /\ environment = desktop
          /\ \A k \in Name \X Name : apps[k] \in {None, desktop}
      BY DEF ScopeInv, OneProcess, Rebinding
    <2>2. call.chain = selection /\ call.handle = desktop
      BY <1>1 DEF ScopeInv, CallsSeeTheSelection
    <2>3. selection'["process_id"] = desktop
      <3>1. CASE r.kind = "ok" /\ call.op = "select"
        <4>1. call.choice \in Name /\ selection' \in Selected(call)
          BY <3>1, AnswerScope
        <4>2. "process_id" \in SelectionField \ {call.stage}
              /\ "process_id" \notin DownstreamOf[call.stage]
          BY <1>1 DEF SelectionField, DownstreamOf, Worker
        <4> QED
          BY <1>1, <2>1, <2>2, <4>1, <4>2, SelectedFields
      <3>2. CASE ~(r.kind = "ok" /\ call.op = "select")
        BY <2>1, <3>2, AnswerScope
      <3> QED
        BY <3>1, <3>2
    <2> QED
      BY <1>1, <2>1, <2>2, <2>3
  <1> QED
    BY <1>2, <1>3, <1>4 DEF ScopeInv

\* An answer after which no session is left.
LEMMA EndedScope ==
  ASSUME ScopeInv, LifeInv', NEW r, Answer(r),
         health' \in {"LOST", "DETACHED"}, chain' = EmptyChain,
         pc' \in {"idle", "body"}, UNCHANGED served
  PROVE  ScopeInv'
  <1>1. ~IsConnected' /\ health' # "ATTACHED"
    BY DEF IsConnected
  <1>2. ChainIsClean' /\ GuidedOrder'
    BY CleanChains DEF ChainIsClean, GuidedOrder, EmptyChain, Field
  <1>3. VerifiedSoFar' /\ ScopesAgree'
    BY <1>1 DEF VerifiedSoFar, ScopesAgree
  <1>4. ServedUnderItsStamp'
    BY DEF ScopeInv, ServedUnderItsStamp, MatchesItsStamp
  <1> QED
    BY <1>1, <1>2, <1>3, <1>4, AfterAnswer

-----------------------------------------------------------------------------
(* Part 3: ScopeInv is preserved by the steps of a re-verification.        *)

LEMMA VerifyFailsScope ==
  ASSUME ScopeInv, LifeInv', NEW r, Answer(r),
         \/ \E f \in Fault : VerifyFails(f)
         \/ ToLost("none") /\ EndVerify,
         UNCHANGED served
  PROVE  ScopeInv'
  <1>1. health' = "LOST" /\ chain' = EmptyChain /\ pc' = "body"
    BY DEF VerifyFails, FaultInVerify, ToLost, EndVerify
  <1> QED
    BY <1>1, EndedScope

\* A reset during re-verification keeps ScopeInv, whether or not it must resync.
LEMMA ResetFromScope ==
  ASSUME ScopeInv, LifeInv', NEW r, Answer(r), r.kind # "timeout", call.op # "attach",
         health = "SUSPECT", NEW s \in Stage, ResetFrom(s), UNCHANGED served
  PROVE  ScopeInv'
  <1>1. chain \in Chain /\ Sanitized(chain) = chain /\ Ordered(chain)
    BY DEF ScopeInv, LifeInv, TypeOK, ChainIsClean, GuidedOrder, Ordered
  <1>2. chain' = Cleared(chain, ClearFrom[s]) /\ health' = "ATTACHED" /\ environment' = environment
    BY DEF ResetFrom, Keep
  <1>3. /\ chain'["process_id"] = chain["process_id"]
        /\ chain'["variation"] = None
        /\ s = "project" => chain'["project"] = None
    BY <1>1, <1>2, ClearedFields DEF ClearFrom, Field
  <1>4. ChainIsClean' /\ GuidedOrder'
    BY <1>1, <1>2, ClearedFields, ClearedOrdered DEF ChainIsClean, GuidedOrder, Ordered
  <1>5. IsConnected /\ ~Rebinding /\ selection \in Chain
    BY DEF IsConnected, Rebinding, ScopeInv, LifeInv, TypeOK, AdapterTypeOK
  <1>6. selection' = selection \/ (call.op = "select" /\ r.kind = "ok")
    BY AnswerScope
  <1>7. selection'["process_id"] = chain'["process_id"] /\ selection' \in Chain
    <2>1. selection["process_id"] = chain["process_id"]
      BY <1>5 DEF ScopeInv, OneProcess
    <2>2. CASE call.op = "select" /\ r.kind = "ok"
      <3>1. /\ call \in Worker /\ call.choice \in Name /\ selection' \in Selected(call)
            /\ call.chain = selection
        BY <2>2, AnswerScope DEF ScopeInv, CallsSeeTheSelection
      <3>2. "process_id" \in SelectionField \ {call.stage}
            /\ "process_id" \notin DownstreamOf[call.stage]
        BY <3>1 DEF SelectionField, DownstreamOf, Worker
      <3> QED
        BY <1>3, <2>1, <3>1, <3>2, SelectedFields, SelectedType
    <2> QED
      BY <1>3, <1>5, <1>6, <2>1, <2>2
  <1>8. Sanitized(selection')["process_id"] = chain'["process_id"]
    BY <1>7, SanitizedFields DEF Field, NameField
  <1>9. VerifiedSoFar' /\ ScopesAgree'
    <2>1. CASE s = "project"
      BY <1>3, <2>1 DEF ResetFrom, EndVerify, VerifiedSoFar, ScopesAgree
    <2>2. CASE s # "project"
      <3>1. pc' = "resync" /\ stage' = "project" /\ call'.op = "none"
        BY <2>2, AnswerScope DEF ResetFrom, GoTo
      <3> QED
        BY <1>3, <1>8, <3>1 DEF VerifiedSoFar, ScopesAgree, AgreeAbove, SameSelection, Above
    <2> QED
      BY <2>1, <2>2
  <1>10. ServedUnderItsStamp'
    BY DEF ScopeInv, ServedUnderItsStamp, MatchesItsStamp
  <1> QED
    BY <1>2, <1>3, <1>4, <1>5, <1>9, <1>10, AfterAnswer

\* The answer of the re-verification's listing keeps ScopeInv.
LEMMA VerifyListedScope ==
  ASSUME ScopeInv, VerifyListed
  PROVE  ScopeInv'
  <1>1. LifeInv /\ LifeInv'
    BY VerifyListedLife DEF ScopeInv
  <1>2. /\ pc = "verify_list" /\ stage \in Stage /\ health = "SUSPECT"
        /\ call.op \in {"none", "list"} /\ UNCHANGED served
    BY <1>1 DEF VerifyListed, LifeInv, CallsFitControl, HealthFitsControl
  <1>3. PICK r \in Outcomes(call) :
          /\ Answer(r)
          /\ \/ r.kind \in Fault /\ VerifyFails(r.kind)
             \/ ToLost("none") /\ EndVerify
             \/ r.kind # "timeout" /\ ResetFrom(stage)
             \/ /\ r.kind = "ok" /\ chain["project"] = None
                /\ Keep("ATTACHED", chain) /\ EndVerify
             \/ /\ r.kind = "ok" /\ chain["project"] # None
                /\ \E c \in PresentChoices(r.options) : GoTo("verify_select", stage, c)
                /\ UNCHANGED sessionState
    BY <1>2 DEF VerifyListed
  <1>4. call.op = "list" /\ call'.op = "none" /\ UNCHANGED selection /\ IsConnected
    BY <1>2, <1>3, AnswerScope DEF IsConnected
  <1>5. ServedUnderItsStamp'
    BY <1>2 DEF ScopeInv, ServedUnderItsStamp, MatchesItsStamp
  <1>6. CASE (r.kind \in Fault /\ VerifyFails(r.kind)) \/ (ToLost("none") /\ EndVerify)
    BY <1>1, <1>2, <1>3, <1>6, VerifyFailsScope
  <1>7. CASE r.kind # "timeout" /\ ResetFrom(stage)
    BY <1>1, <1>2, <1>3, <1>4, <1>7, ResetFromScope
  <1>8. CASE /\ r.kind = "ok" /\ chain["project"] = None
             /\ Keep("ATTACHED", chain) /\ EndVerify
    <2>1. ChainIsClean' /\ GuidedOrder' /\ VerifiedSoFar' /\ ScopesAgree'
      BY <1>8 DEF ScopeInv, Keep, EndVerify, ChainIsClean, GuidedOrder, VerifiedSoFar, ScopesAgree
    <2> QED
      BY <1>1, <1>3, <1>4, <1>5, <1>8, <2>1, AfterAnswer DEF Keep
  <1>9. CASE /\ r.kind = "ok" /\ chain["project"] # None
             /\ \E c \in PresentChoices(r.options) : GoTo("verify_select", stage, c)
             /\ UNCHANGED sessionState
    <2>1. PICK c \in PresentChoices(r.options) : GoTo("verify_select", stage, c)
      BY <1>9
    <2>2. stage # "variation" => c = chain[stage]
      BY <2>1 DEF PresentChoices
    <2>3. ChainIsClean' /\ GuidedOrder' /\ ScopesAgree'
      BY <1>2, <1>9 DEF ScopeInv, sessionState, ChainIsClean, GuidedOrder, ScopesAgree
    <2>4. VerifiedSoFar'
      BY <1>2, <1>4, <1>9, <2>1, <2>2
      DEF ScopeInv, VerifiedSoFar, GoTo, sessionState, AgreeAbove
    <2> QED
      BY <1>1, <1>3, <1>4, <1>5, <1>9, <2>3, <2>4, AfterAnswer DEF sessionState
  <1> QED
    BY <1>3, <1>6, <1>7, <1>8, <1>9

\* A stage selected again with the session's own choice is back in the adapter.
LEMMA StageBack ==
  ASSUME ScopeInv, NEW r, Answer(r), r.kind = "ok", call.op = "select",
         pc \in {"verify_select", "resync"}, stage \in Stage,
         stage = "variation" => Sanitized(r.chain)["variation"] = chain["variation"]
  PROVE  /\ SameSelection(Sanitized(selection'), chain, Above[NextStage[stage]])
         /\ (NextStage[stage] = "end" \/ chain[NextStage[stage]] = None)
              => SameSelection(Sanitized(selection'), chain, Above["end"])
  <1>1. /\ call \in Worker /\ call.choice \in Name
        /\ selection' = r.chain /\ r.chain \in Selected(call)
        /\ call.chain = selection /\ call.stage = stage
    BY AnswerScope DEF ScopeInv, CallsSeeTheSelection, LifeInv, CallsFitControl
  <1>2. chain \in Chain /\ Sanitized(chain) = chain /\ Ordered(chain)
    BY DEF ScopeInv, LifeInv, TypeOK, ChainIsClean, GuidedOrder, Ordered
  <1>3. SameSelection(Sanitized(selection), chain, Above[stage])
    BY DEF ScopeInv, VerifiedSoFar, AgreeAbove
  <1>4. Sanitized(r.chain)[stage] = chain[stage]
    <2>1. CASE stage # "variation"
      <3>1. call.choice = chain[stage] /\ stage \in NameField
        BY <1>1, <2>1 DEF ScopeInv, VerifiedSoFar, LifeInv, ChoicesAreNames, NameField
      <3>2. r.chain[stage] = chain[stage] /\ r.chain \in Chain /\ chain[stage] \in Name
        BY <1>1, <2>1, <3>1, SelectedFields, SelectedType DEF ValueOf
      <3>3. Sanitized(r.chain)[stage] = Clean[chain[stage]]
        BY <3>1, <3>2, SanitizedFields
      <3>4. Sanitized(chain)[stage] = Clean[chain[stage]]
        BY <1>2, <3>1, <3>2, SanitizedFields
      <3> QED
        BY <1>2, <3>3, <3>4
    <2> QED
      BY <2>1
  <1> QED
    BY <1>1, <1>2, <1>3, <1>4, ReselectAgrees

\* The answer of the re-verification's select keeps ScopeInv: the verified stages grow by one.
LEMMA VerifySelectedScope ==
  ASSUME ScopeInv, VerifySelected
  PROVE  ScopeInv'
  <1>1. LifeInv /\ LifeInv'
    BY VerifySelectedLife DEF ScopeInv
  <1>2. /\ pc = "verify_select" /\ stage \in Stage /\ health = "SUSPECT"
        /\ call.op \in {"none", "select"} /\ UNCHANGED served
    BY <1>1 DEF VerifySelected, LifeInv, CallsFitControl, HealthFitsControl
  <1>3. PICK r \in Outcomes(call) :
          /\ Answer(r)
          /\ \/ r.kind \in Fault /\ VerifyFails(r.kind)
             \/ r.kind # "timeout" /\ ResetFrom(stage)
             \/ r.kind = "ok" /\ SameAnchor(Sanitized(r.chain)) /\ Confirmed
    BY DEF VerifySelected
  <1>4. call.op = "select" /\ call'.op = "none" /\ IsConnected
    BY <1>2, <1>3, AnswerScope DEF IsConnected
  <1>5. ServedUnderItsStamp'
    BY <1>2 DEF ScopeInv, ServedUnderItsStamp, MatchesItsStamp
  <1>6. CASE r.kind \in Fault /\ VerifyFails(r.kind)
    BY <1>1, <1>2, <1>3, <1>6, VerifyFailsScope
  <1>7. CASE r.kind # "timeout" /\ ResetFrom(stage)
    BY <1>1, <1>2, <1>3, <1>4, <1>7, ResetFromScope
  <1>8. CASE r.kind = "ok" /\ SameAnchor(Sanitized(r.chain)) /\ Confirmed
    <2>1. stage = "variation" => Sanitized(r.chain)["variation"] = chain["variation"]
      BY <1>8 DEF SameAnchor, AnchorOf
    <2>2. /\ SameSelection(Sanitized(selection'), chain, Above[NextStage[stage]])
          /\ (NextStage[stage] = "end" \/ chain[NextStage[stage]] = None)
               => SameSelection(Sanitized(selection'), chain, Above["end"])
      BY <1>2, <1>3, <1>4, <1>8, <2>1, StageBack
    <2>3. NextStage[stage] # "project"
      BY <1>2 DEF NextStage
    <2>4. CASE NextStage[stage] = "end" \/ chain[NextStage[stage]] = None
      <3>1. Keep("ATTACHED", chain) /\ EndVerify
        BY <1>8, <2>4 DEF Confirmed
      <3>2. ChainIsClean' /\ GuidedOrder' /\ VerifiedSoFar'
        BY <3>1 DEF ScopeInv, Keep, EndVerify, ChainIsClean, GuidedOrder, VerifiedSoFar
      <3>3. ScopesAgree'
        BY <2>2, <2>4, <3>1 DEF Keep, ScopesAgree, AgreeAbove
      <3> QED
        BY <1>1, <1>3, <1>4, <1>5, <1>8, <3>1, <3>2, <3>3, AfterAnswer DEF Keep
    <2>5. CASE ~(NextStage[stage] = "end" \/ chain[NextStage[stage]] = None)
      <3>1. GoTo("verify_list", NextStage[stage], None) /\ UNCHANGED sessionState
        BY <1>8, <2>5 DEF Confirmed
      <3>2. ChainIsClean' /\ GuidedOrder' /\ ScopesAgree'
        BY <1>2, <3>1 DEF ScopeInv, sessionState, ChainIsClean, GuidedOrder, ScopesAgree
      <3>3. VerifiedSoFar'
        BY <2>2, <2>5, <3>1 DEF VerifiedSoFar, GoTo, sessionState, AgreeAbove
      <3> QED
        BY <1>1, <1>3, <1>4, <1>5, <1>8, <3>1, <3>2, <3>3, AfterAnswer DEF sessionState
    <2> QED
      BY <2>4, <2>5
  <1> QED
    BY <1>3, <1>6, <1>7, <1>8

\* The answer of a resync select keeps ScopeInv: the rebuilt prefix grows by one.
LEMMA ResyncedScope ==
  ASSUME ScopeInv, Resynced
  PROVE  ScopeInv'
  <1>1. LifeInv /\ LifeInv'
    BY ResyncedLife DEF ScopeInv
  <1>2. /\ pc = "resync" /\ stage \in NameField /\ stage \in Stage /\ health = "ATTACHED"
        /\ call.op \in {"none", "select"} /\ UNCHANGED served
    BY <1>1 DEF Resynced, LifeInv, CallsFitControl, ChoicesAreNames, HealthFitsControl, NameField
  <1>3. PICK r \in Outcomes(call) :
          /\ Answer(r)
          /\ \/ r.kind \in Fault /\ VerifyFails(r.kind)
             \/ ToLost("none") /\ EndVerify
             \/ /\ r.kind = "ok"
                /\ NextStage[stage] = "variation" \/ chain[NextStage[stage]] = None
                /\ EndVerify /\ UNCHANGED sessionState
             \/ /\ r.kind = "ok"
                /\ ~(NextStage[stage] = "variation" \/ chain[NextStage[stage]] = None)
                /\ GoTo("resync", NextStage[stage], None) /\ UNCHANGED sessionState
    BY DEF Resynced
  <1>4. call.op = "select" /\ call'.op = "none" /\ IsConnected
    BY <1>2, <1>3, AnswerScope DEF IsConnected
  <1>5. ServedUnderItsStamp'
    BY <1>2 DEF ScopeInv, ServedUnderItsStamp, MatchesItsStamp
  <1>6. CASE (r.kind \in Fault /\ VerifyFails(r.kind)) \/ (ToLost("none") /\ EndVerify)
    BY <1>1, <1>2, <1>3, <1>6, VerifyFailsScope
  <1>7. r.kind = "ok" =>
          /\ SameSelection(Sanitized(selection'), chain, Above[NextStage[stage]])
          /\ (NextStage[stage] = "end" \/ chain[NextStage[stage]] = None)
               => SameSelection(Sanitized(selection'), chain, Above["end"])
    BY <1>2, <1>3, <1>4, StageBack DEF NameField
  <1>8. chain["variation"] = None
    BY <1>2 DEF ScopeInv, VerifiedSoFar
  <1>9. CASE /\ r.kind = "ok"
             /\ NextStage[stage] = "variation" \/ chain[NextStage[stage]] = None
             /\ EndVerify /\ UNCHANGED sessionState
    <2>1. ChainIsClean' /\ GuidedOrder' /\ VerifiedSoFar'
      BY <1>9 DEF ScopeInv, sessionState, EndVerify, ChainIsClean, GuidedOrder, VerifiedSoFar
    <2>2. ScopesAgree'
      BY <1>7, <1>8, <1>9 DEF sessionState, ScopesAgree, AgreeAbove
    <2> QED
      BY <1>1, <1>3, <1>4, <1>5, <1>9, <2>1, <2>2, AfterAnswer DEF sessionState
  <1>10. CASE /\ r.kind = "ok"
              /\ ~(NextStage[stage] = "variation" \/ chain[NextStage[stage]] = None)
              /\ GoTo("resync", NextStage[stage], None) /\ UNCHANGED sessionState
    <2>1. ChainIsClean' /\ GuidedOrder'
      BY <1>10 DEF ScopeInv, sessionState, ChainIsClean, GuidedOrder
    <2>2. VerifiedSoFar' /\ ScopesAgree'
      BY <1>4, <1>7, <1>8, <1>10
      DEF VerifiedSoFar, ScopesAgree, GoTo, sessionState, AgreeAbove
    <2> QED
      BY <1>1, <1>3, <1>4, <1>5, <1>10, <2>1, <2>2, AfterAnswer DEF sessionState
  <1> QED
    BY <1>3, <1>6, <1>7, <1>9, <1>10

-----------------------------------------------------------------------------
(* Part 4: ScopeInv is preserved by the other steps.                       *)

LEMMA AttachedScope ==
  ASSUME ScopeInv, Attached
  PROVE  ScopeInv'
  <1>1. LifeInv /\ LifeInv'
    BY AttachedLife DEF ScopeInv
  <1>2. /\ pc = "attach" /\ pc' = "idle" /\ call.op = "attach" /\ UNCHANGED served
        /\ None \notin Process /\ call.handle \in Process
    BY <1>1, ChainAssumption
    DEF Attached, Return, LifeInv, CallsFitControl, ChoicesAreNames, WellFormed
  <1>3. PICK r \in Outcomes(call) :
          /\ Answer(r)
          /\ \/ r.kind = "cannot_evaluate" /\ UNCHANGED sessionState
             \/ health' = "DETACHED" /\ chain' = EmptyChain
             \/ /\ r.kind = "ok"
                /\ health' = "ATTACHED" /\ chain' = OnlyProcess(call.handle)
                /\ environment' = r.environment
    BY DEF Attached
  <1>4. /\ call'.op = "none" /\ UNCHANGED <<desktop, apps, selection>>
        /\ r.kind # "timeout" => orphans' = {}
        /\ call \in Worker
    BY <1>2, <1>3, AnswerScope
  <1>5. ServedUnderItsStamp'
    BY <1>2 DEF ScopeInv, ServedUnderItsStamp, MatchesItsStamp
  <1>6. OrphansOutsideRequests' /\ FreshlyAttached' /\ CallsSeeTheSelection' /\ ~Rebinding'
    BY <1>2, <1>3, <1>4 DEF OrphansOutsideRequests, FreshlyAttached, CallsSeeTheSelection, Rebinding
  <1>7. CASE health' = "DETACHED" /\ chain' = EmptyChain
    BY <1>1, <1>2, <1>3, <1>7, EndedScope
  <1>8. CASE r.kind = "cannot_evaluate" /\ UNCHANGED sessionState
    <2>1. ~Rebinding
      <3>1. Declined(call) = "none"
        BY <1>2 DEF Declined, ReadsDesign
      <3>2. \A v \in Values(call) : v.kind = "ok"
        BY DEF Values
      <3>3. call.at # "read"
        BY <1>2, <1>3, <1>8, <3>1, <3>2 DEF Outcomes, Outcome, Fault
      <3> QED
        BY <3>3 DEF ScopeInv, FreshlyAttached, Rebinding
    <2>2. OneProcess'
      BY <1>4, <1>8, <2>1
      DEF ScopeInv, OneProcess, sessionState, IsConnected
    <2>3. ChainIsClean' /\ GuidedOrder' /\ VerifiedSoFar'
      BY <1>2, <1>8 DEF ScopeInv, sessionState, ChainIsClean, GuidedOrder, VerifiedSoFar
    <2>4. ScopesAgree'
      BY <1>2, <1>4, <1>8, <2>1 DEF ScopeInv, sessionState, ScopesAgree, AgreeAbove
    <2> QED
      BY <1>1, <1>5, <1>6, <1>8, <2>2, <2>3, <2>4 DEF ScopeInv
  <1>9. CASE /\ r.kind = "ok"
             /\ health' = "ATTACHED" /\ chain' = OnlyProcess(call.handle)
             /\ environment' = r.environment
    <2>1. r \in Values(call) /\ call.at = "read"
      BY <1>3, <1>4, <1>9, OutcomeFacts
    <2>2. r.environment = desktop
      BY <1>2, <2>1 DEF Values
    <2>3. desktop = call.handle /\ selection = OnlyProcess(call.handle) /\ apps = NoApps
      BY <1>2, <2>1 DEF ScopeInv, FreshlyAttached, Rebinding
    <2>4. /\ OnlyProcess(call.handle)["process_id"] = call.handle
          /\ \A f \in Stage : OnlyProcess(call.handle)[f] = None
      BY DEF OnlyProcess, EmptyChain, Field
    <2>5. OneProcess'
      BY <1>2, <1>4, <1>9, <2>2, <2>3, <2>4 DEF OneProcess, NoApps
    <2>6. ChainIsClean' /\ GuidedOrder' /\ VerifiedSoFar' /\ ScopesAgree'
      BY <1>2, <1>9, <2>4, CleanChains
      DEF ChainIsClean, GuidedOrder, VerifiedSoFar, ScopesAgree
    <2> QED
      BY <1>1, <1>5, <1>6, <1>9, <2>5, <2>6 DEF ScopeInv
  <1> QED
    BY <1>3, <1>7, <1>8, <1>9

\* In an operation's body the adapter's scope is the session's.
LEMMA BodyScope ==
  ASSUME ScopeInv, pc = "body", call.op # "none", call \in Worker
  PROVE  /\ health = "ATTACHED" /\ IsConnected /\ ~Rebinding
         /\ call.op = request.op /\ call.stage = request.stage
         /\ call.op \notin {"none", "attach"}
         /\ call.chain = selection /\ call.handle = desktop
         /\ chain["project"] # None => AgreeAbove("end")
         /\ call.op \in {"list", "select"} => PrerequisiteMet(call.stage)
         /\ call.op \notin {"list", "select"}
              => chain["project"] # None /\ chain["design"] # None
         /\ chain["process_id"] = desktop /\ environment = desktop
  <1>1. /\ Allowed(request) /\ call.op = request.op /\ call.stage = request.stage
        /\ request.op \notin {"none", "attach"}
    BY DEF ScopeInv, LifeInv, CallsFitControl, ChoicesAreNames
  <1>2. health = "ATTACHED" /\ IsConnected /\ ~Rebinding
    BY <1>1 DEF Allowed, IsConnected, Rebinding
  <1> QED
    BY <1>1, <1>2 DEF ScopeInv, CallsSeeTheSelection, ScopesAgree, OneProcess, Allowed

\* The chain a select answers is in the guided order, because the adapter's
\* selection agreed with the session's when the select began.
LEMMA SelectedOrdered ==
  ASSUME ScopeInv, pc = "body", call \in Worker, call.op = "select", call.choice \in Name,
         NEW c \in Selected(call)
  PROVE  /\ Sanitized(c) \in Chain
         /\ Ordered(Sanitized(c))
         /\ Sanitized(c)["process_id"] = chain["process_id"]
  <1>1. /\ call.chain = selection /\ PrerequisiteMet(call.stage) /\ selection \in Chain
        /\ chain["project"] # None => AgreeAbove("end")
        /\ IsConnected /\ ~Rebinding
    BY BodyScope DEF Worker
  <1>2. /\ call.stage \in Stage /\ c \in Chain
        /\ SelectionField = {"process_id"} \union Stage /\ SelectionField \subseteq Field
    BY SelectedType DEF Worker, SelectionField, Field
  <1>3. /\ chain["process_id"] # None /\ selection["process_id"] = chain["process_id"]
    BY <1>1 DEF ScopeInv, OneProcess
  <1>4. \A f \in SelectionField : Sanitized(c)[f] = None <=> c[f] = None
    BY <1>2, SanitizedFields
  <1>5. \A f \in SelectionField : Sanitized(selection)[f] = None <=> selection[f] = None
    BY <1>1, <1>2, SanitizedFields
  <1>6. /\ c[call.stage] # None
        /\ \A f \in SelectionField \ {call.stage} :
              c[f] = IF f \in DownstreamOf[call.stage] THEN None ELSE selection[f]
    BY <1>1, SelectedFields
  <1>7. c["process_id"] = selection["process_id"]
    BY <1>2, <1>6 DEF DownstreamOf
  <1>8. Sanitized(c)["process_id"] = chain["process_id"]
    BY <1>2, <1>3, <1>7, SanitizedFields DEF Field, NameField
  <1>9. Ordered(c)
    <2>1. Ordered(chain)
      BY DEF ScopeInv, GuidedOrder, Ordered
    <2>2. CASE call.stage = "project"
      BY <1>2, <1>3, <1>6, <1>7, <2>2 DEF Ordered, Upstream, DownstreamOf
    <2>3. CASE call.stage # "project"
      <3>1. chain[Upstream[call.stage]] # None
        BY <1>1, <2>3 DEF PrerequisiteMet
      <3>2. chain["project"] # None
        BY <1>2, <2>1, <2>3, <3>1 DEF Ordered, Upstream
      <3>3. \A f \in SelectionField : chain[f] = None <=> selection[f] = None
        BY <1>1, <1>5, <3>2 DEF AgreeAbove, SameSelection, Above
      <3>4. Ordered(selection) /\ selection[Upstream[call.stage]] # None
        BY <1>2, <2>1, <3>1, <3>3 DEF Ordered, Upstream
      <3> QED
        BY <1>2, <1>6, <3>4 DEF Ordered, Upstream, DownstreamOf
    <2> QED
      BY <2>2, <2>3
  <1>10. Ordered(Sanitized(c))
    BY <1>2, <1>4, <1>9 DEF Ordered, Upstream
  <1> QED
    BY <1>2, <1>8, <1>10, SanitizedType

\* The answer of the request's own operation keeps ScopeInv.
LEMMA AnsweredScope ==
  ASSUME ScopeInv, Answered
  PROVE  ScopeInv'
  <1>1. LifeInv /\ LifeInv'
    BY AnsweredLife DEF ScopeInv
  <1>2. pc = "body" /\ pc' = "idle" /\ UNCHANGED <<request, stage, token>>
    BY DEF Answered, Return
  <1>3. PICK r \in Outcomes(call) :
          /\ Answer(r)
          /\ \/ r.kind \in Fault /\ FaultInOperation(r.kind) /\ UNCHANGED served
             \/ r.kind # "timeout" /\ (r.kind = "ok" => request.op = "list")
                  /\ UNCHANGED <<sessionState, served>>
             \/ r.kind = "ok" /\ request.op = "select"
                  /\ Keep(health, Sanitized(r.chain)) /\ UNCHANGED served
             \/ r.kind = "ok" /\ request.op \in {"inspect", "validate_native"}
                  /\ Serve(r) /\ UNCHANGED sessionState
    BY DEF Answered
  <1>4. call \in Worker /\ call.op # "none" /\ call'.op = "none"
    BY <1>3, AnswerScope
  <1>5. /\ health = "ATTACHED" /\ IsConnected /\ ~Rebinding
        /\ call.op = request.op /\ call.op \notin {"none", "attach"}
        /\ call.chain = selection /\ call.handle = desktop
        /\ chain["project"] # None => AgreeAbove("end")
        /\ call.op \notin {"list", "select"} => chain["project"] # None /\ chain["design"] # None
        /\ chain["process_id"] = desktop /\ environment = desktop
    BY <1>2, <1>4, BodyScope
  <1>6. VerifiedSoFar'
    BY <1>2 DEF VerifiedSoFar
  <1>7. UNCHANGED served => ServedUnderItsStamp'
    BY DEF ScopeInv, ServedUnderItsStamp, MatchesItsStamp
  <1>8. CASE r.kind \in Fault /\ FaultInOperation(r.kind) /\ UNCHANGED served
    <2>1. CASE r.kind \in LostCause
      <3>1. health' = "LOST" /\ chain' = EmptyChain
        BY <1>8, <2>1 DEF FaultInOperation, ToLost
      <3> QED
        BY <1>1, <1>2, <1>3, <1>8, <3>1, EndedScope
    <2>2. CASE r.kind \notin LostCause
      <3>1. /\ chain' = chain /\ environment' = environment
            /\ \/ health' = "SUSPECT"
               \/ health' = "ATTACHED" /\ r.kind # "timeout"
        BY <1>5, <1>8, <2>2 DEF FaultInOperation, Keep, sessionState
      <3>2. selection' = selection
        BY <1>3, <1>8, AnswerScope DEF Fault
      <3>3. ChainIsClean' /\ GuidedOrder'
        BY <3>1 DEF ScopeInv, ChainIsClean, GuidedOrder
      <3>4. ScopesAgree'
        BY <1>5, <3>1, <3>2 DEF ScopesAgree, AgreeAbove
      <3> QED
        BY <1>1, <1>2, <1>3, <1>5, <1>6, <1>7, <1>8, <3>1, <3>3, <3>4, AfterAnswer
    <2> QED
      BY <2>1, <2>2
  <1>9. CASE /\ r.kind # "timeout" /\ (r.kind = "ok" => request.op = "list")
             /\ UNCHANGED <<sessionState, served>>
    <2>1. selection' = selection
      BY <1>3, <1>5, <1>9, AnswerScope
    <2>2. ChainIsClean' /\ GuidedOrder'
      BY <1>9 DEF ScopeInv, ChainIsClean, GuidedOrder, sessionState
    <2>3. ScopesAgree'
      BY <1>5, <1>9, <2>1 DEF ScopesAgree, AgreeAbove, sessionState
    <2> QED
      BY <1>1, <1>2, <1>3, <1>5, <1>6, <1>7, <1>9, <2>2, <2>3, AfterAnswer DEF sessionState
  <1>10. CASE /\ r.kind = "ok" /\ request.op = "select"
              /\ Keep(health, Sanitized(r.chain)) /\ UNCHANGED served
    <2>1. /\ call.choice \in Name /\ r.chain \in Selected(call) /\ selection' = r.chain
          /\ r.chain \in Chain
      BY <1>3, <1>4, <1>5, <1>10, AnswerScope, SelectedType
    <2>2. /\ Ordered(Sanitized(r.chain))
          /\ Sanitized(r.chain)["process_id"] = chain["process_id"]
      BY <1>2, <1>4, <1>5, <1>10, <2>1, SelectedOrdered
    <2>3. chain' = Sanitized(r.chain) /\ health' = health /\ environment' = environment
      BY <1>10 DEF Keep
    <2>4. ChainIsClean' /\ GuidedOrder'
      BY <2>1, <2>2, <2>3, SanitizedFields DEF ChainIsClean, GuidedOrder, Ordered
    <2>5. ScopesAgree'
      BY <2>1, <2>3 DEF ScopesAgree, AgreeAbove, SameSelection
    <2> QED
      BY <1>1, <1>2, <1>3, <1>5, <1>6, <1>7, <1>10, <2>2, <2>3, <2>4, <2>5, AfterAnswer
  <1>11. CASE /\ r.kind = "ok" /\ request.op \in {"inspect", "validate_native"}
              /\ Serve(r) /\ UNCHANGED sessionState
    <2>1. selection' = selection
      BY <1>3, <1>5, <1>11, AnswerScope
    <2>2. ChainIsClean' /\ GuidedOrder'
      BY <1>11 DEF ScopeInv, ChainIsClean, GuidedOrder, sessionState
    <2>3. ScopesAgree'
      BY <1>5, <1>11, <2>1 DEF ScopesAgree, AgreeAbove, sessionState
    <2>4. /\ r.handle = desktop
          /\ selection["project"] \in Name /\ selection["design"] \in Name
          /\ r.project = Clean[selection["project"]]
          /\ r.design = Clean[selection["design"]]
      BY <1>1, <1>3, <1>5, <1>11, ReadServed
    <2>5. /\ Sanitized(selection)["project"] = chain["project"]
          /\ Sanitized(selection)["design"] = chain["design"]
      BY <1>5, <1>11 DEF AgreeAbove, SameSelection, Above, SelectionField
    <2>6. selection \in Chain
      BY <1>1 DEF LifeInv, TypeOK, AdapterTypeOK
    <2>7. r.project = chain["project"] /\ r.design = chain["design"]
      BY <2>4, <2>5, <2>6, SanitizedFields DEF NameField
    <2>8. ServedUnderItsStamp'
      BY <1>5, <1>11, <2>4, <2>7 DEF Serve, ServedUnderItsStamp, MatchesItsStamp
    <2> QED
      BY <1>1, <1>2, <1>3, <1>5, <1>6, <1>11, <2>2, <2>3, <2>8, AfterAnswer DEF sessionState
  <1> QED
    BY <1>3, <1>8, <1>9, <1>10, <1>11

\* No request arrives while a worker runs on.
LEMMA ReceiveScope ==
  ASSUME ScopeInv, Receive, LateOrphans = FALSE
  PROVE  ScopeInv'
  <1>1. LifeInv /\ LifeInv'
    BY ReceiveLife DEF ScopeInv
  <1>2. /\ pc = "idle" /\ orphans = {} /\ orphans' = {} /\ call.op = "none"
        /\ UNCHANGED <<desktop, apps, selection, sessionState>>
        /\ served' = NotServed
        /\ \/ pc' = "attach" /\ call'.op = "attach" /\ call'.at = "connect"
           \/ pc' = "body" /\ UNCHANGED call
           \/ /\ pc' = "verify_list" /\ stage' = "project" /\ UNCHANGED call
              /\ health = "SUSPECT"
    <2>1. call.op = "none" \/ pc # "idle"
      BY <1>1 DEF LifeInv, CallsFitControl
    <2>2. CASE \E p \in Process : Attach(p)
      BY <2>1, <2>2, BeginAttachType DEF Attach, Idle
    <2>3. CASE \E r : Guarded(r)
      BY <2>1, <2>3 DEF Guarded, Idle, adapterVars
    <2> QED
      BY <2>2, <2>3 DEF Receive, ListSelectionOptions, Select, Inspect, ValidateNative
  <1>3. ~Rebinding /\ ~Rebinding'
    BY <1>2 DEF Rebinding
  <1>4. OrphansOutsideRequests' /\ FreshlyAttached' /\ CallsSeeTheSelection'
    BY <1>2, <1>3 DEF OrphansOutsideRequests, FreshlyAttached, CallsSeeTheSelection
  <1>5. OneProcess'
    BY <1>2, <1>3 DEF ScopeInv, OneProcess, sessionState, IsConnected
  <1>6. ChainIsClean' /\ GuidedOrder'
    BY <1>2 DEF ScopeInv, ChainIsClean, GuidedOrder, sessionState
  <1>7. VerifiedSoFar'
    <2>1. CASE pc' # "verify_list"
      BY <1>2, <2>1 DEF VerifiedSoFar
    <2>2. CASE pc' = "verify_list"
      <3>1. selection["process_id"] = chain["process_id"] /\ selection \in Chain
        BY <1>1, <1>2, <1>3, <2>2
        DEF ScopeInv, OneProcess, IsConnected, LifeInv, TypeOK, AdapterTypeOK
      <3>2. Sanitized(selection)["process_id"] = chain["process_id"]
        BY <3>1, SanitizedFields DEF Field, NameField
      <3> QED
        BY <1>2, <2>2, <3>2 DEF VerifiedSoFar, AgreeAbove, SameSelection, Above, sessionState
    <2> QED
      BY <2>1, <2>2
  <1>8. ScopesAgree'
    BY <1>2, <1>3 DEF ScopeInv, ScopesAgree, AgreeAbove, sessionState
  <1>9. ServedUnderItsStamp'
    BY <1>2 DEF ServedUnderItsStamp, NotServed
  <1> QED
    BY <1>1, <1>4, <1>5, <1>6, <1>7, <1>8, <1>9 DEF ScopeInv

\* With every cached handle on the attached process, so is every call.
LEMMA BeginHandle ==
  ASSUME AdapterTypeOK, NEW op \in Op, NEW s \in Stage, NEW c \in Name \union {None},
         op = "select" => c \in Name,
         \A k \in Name \X Name : apps[k] \in {None, desktop}
  PROVE  Begin(op, s, c).handle = desktop
  <1> DEFINE w == [op |-> op, stage |-> s, choice |-> c, chain |-> selection,
                   at |-> "read", handle |-> desktop]
  <1>1. CASE ~BindsDesign(op, s, selection)
    BY <1>1 DEF Begin
  <1>2. CASE BindsDesign(op, s, selection)
    <2>1. /\ selection["project"] \in Name
          /\ op # "select" => selection["design"] \in Name
      BY <1>2 DEF BindsDesign, ReadsDesign, Unscoped, AdapterTypeOK, Chain, NameField
    <2>2. KeyOf(w) \in Name \X Name
      BY <2>1 DEF KeyOf
    <2>3. Begin(op, s, c) = IF apps[KeyOf(w)] = None THEN [w EXCEPT !.at = "bind"]
                            ELSE [w EXCEPT !.handle = apps[KeyOf(w)]]
      BY <1>2 DEF Begin
    <2>4. apps[KeyOf(w)] = None \/ apps[KeyOf(w)] = desktop
      BY <2>2
    <2>5. [w EXCEPT !.at = "bind"].handle = desktop /\ [w EXCEPT !.handle = desktop].handle = desktop
      OBVIOUS
    <2> QED
      BY <2>3, <2>4, <2>5
  <1> QED
    BY <1>1, <1>2

\* Sending a call to the adapter keeps ScopeInv.
LEMMA CallScope ==
  ASSUME ScopeInv, CallVerifyList \/ CallVerifySelect \/ CallResync \/ CallBody
  PROVE  ScopeInv'
  <1> USE DEF control, sessionState
  <1>1. LifeInv /\ LifeInv'
    BY CallLife DEF ScopeInv
  <1>2. PICK op \in Op, s \in Stage, c \in Name \union {None} :
          /\ Calling(Begin(op, s, c))
          /\ op \notin {"none", "attach"}
          /\ op = "select" => c \in Name
          /\ \/ pc = "verify_list" /\ op = "list"
             \/ pc = "verify_select" /\ op = "select" /\ c = token
             \/ pc = "resync" /\ op = "select" /\ c = chain[stage]
             \/ pc = "body" /\ health = "ATTACHED"
    <2>1. CASE CallVerifyList
      BY <1>1, <2>1 DEF CallVerifyList, LifeInv, CallsFitControl
    <2>2. CASE CallVerifySelect
      BY <1>1, <2>2 DEF CallVerifySelect, LifeInv, CallsFitControl, ChoicesAreNames
    <2>3. CASE CallResync
      <3>1. stage \in NameField /\ chain[stage] # None /\ stage \in Stage /\ chain \in Chain
        BY <1>1, <2>3 DEF CallResync, LifeInv, TypeOK, CallsFitControl, ChoicesAreNames
      <3>2. chain[stage] \in Name
        BY <3>1 DEF Chain
      <3> QED
        BY <2>3, <3>1, <3>2 DEF CallResync
    <2>4. CASE CallBody
      BY <1>1, <2>4 DEF CallBody, Allowed, Request, LifeInv, TypeOK, ChoicesAreNames
    <2> QED
      BY <2>1, <2>2, <2>3, <2>4
  <1>3. health \in {"ATTACHED", "SUSPECT"} /\ IsConnected /\ call.op = "none" /\ ~Rebinding
    BY <1>1, <1>2 DEF Calling, LifeInv, HealthFitsControl, IsConnected, Rebinding
  <1>4. AdapterTypeOK /\ \A k \in Name \X Name : apps[k] \in {None, desktop}
    BY <1>1, <1>3 DEF ScopeInv, OneProcess, LifeInv, TypeOK
  <1>5. /\ call'.op = op /\ call'.choice = c /\ call'.chain = selection
        /\ call'.handle = desktop /\ ~Rebinding'
        /\ UNCHANGED <<desktop, apps, selection, orphans, health, chain, environment,
                       pc, stage, token, served>>
    BY <1>2, <1>4, BeginType, BeginHandle DEF Calling, Rebinding
  <1>6. orphans = {}
    BY <1>2, <1>3 DEF ScopeInv, OrphansOutsideRequests
  <1>7. OrphansOutsideRequests' /\ FreshlyAttached' /\ CallsSeeTheSelection'
    BY <1>5, <1>6 DEF OrphansOutsideRequests, FreshlyAttached, CallsSeeTheSelection
  <1>8. OneProcess'
    BY <1>3, <1>5 DEF ScopeInv, OneProcess, IsConnected
  <1>9. ChainIsClean' /\ GuidedOrder' /\ ServedUnderItsStamp'
    BY <1>5 DEF ScopeInv, ChainIsClean, GuidedOrder, ServedUnderItsStamp, MatchesItsStamp
  <1>10. VerifiedSoFar'
    BY <1>2, <1>5 DEF ScopeInv, VerifiedSoFar, AgreeAbove
  <1>11. ScopesAgree'
    BY <1>3, <1>5 DEF ScopeInv, ScopesAgree, AgreeAbove
  <1> QED
    BY <1>1, <1>7, <1>8, <1>9, <1>10, <1>11 DEF ScopeInv

\* A request the lifecycle refuses keeps ScopeInv.
LEMMA RefuseScope ==
  ASSUME ScopeInv, Refuse
  PROVE  ScopeInv'
  <1>1. LifeInv'
    BY RefuseLife DEF ScopeInv
  <1>2. /\ UNCHANGED <<adapterVars, sessionState, served>>
        /\ pc = "body" /\ pc' = "idle"
    BY DEF Refuse, Return
  <1> QED
    BY <1>1, <1>2
    DEF ScopeInv, adapterVars, sessionState, OrphansOutsideRequests, Rebinding, IsConnected,
        OneProcess, FreshlyAttached, CallsSeeTheSelection, ChainIsClean, GuidedOrder,
        VerifiedSoFar, ScopesAgree, AgreeAbove, ServedUnderItsStamp, MatchesItsStamp

\* A step of an abandoned worker keeps ScopeInv.
LEMMA WorkersScope ==
  ASSUME ScopeInv, Workers
  PROVE  ScopeInv'
  <1> USE DEF control, sessionState
  <1>1. LifeInv /\ LifeInv'
    BY WorkersLife DEF ScopeInv
  <1>2. /\ UNCHANGED <<health, chain, environment, pc, stage, token, request, served>>
        /\ Connect \/ Bind \/ OrphanStep
    BY DEF Workers
  <1>3. /\ call \in Worker /\ orphans \in SUBSET Worker /\ selection \in Chain
        /\ apps \in [Name \X Name -> Process \union {None}]
        /\ WellFormed(call) /\ \A w \in orphans : WellFormed(w)
    BY <1>1 DEF LifeInv, TypeOK, AdapterTypeOK, ChoicesAreNames
  <1>4. ChainIsClean' /\ GuidedOrder' /\ ServedUnderItsStamp'
    BY <1>2 DEF ScopeInv, ChainIsClean, GuidedOrder, ServedUnderItsStamp, MatchesItsStamp
  <1>5. CASE Connect
    <2>1. /\ call.op = "attach" /\ call.at = "connect" /\ call' = [call EXCEPT !.at = "read"]
          /\ Connected(call) /\ orphans' = orphans
      BY <1>3, <1>5 DEF Connect, WellFormed
    <2>2. call'.op = "attach" /\ call'.at = "read" /\ call'.handle = call.handle /\ Rebinding'
      BY <1>3, <2>1 DEF Worker, Rebinding
    <2>3. pc = "attach"
      BY <1>1, <2>1 DEF LifeInv, TypeOK, CallsFitControl, ChoicesAreNames
    <2>4. OrphansOutsideRequests'
      BY <1>2, <2>1 DEF ScopeInv, OrphansOutsideRequests
    <2>5. OneProcess' /\ ScopesAgree'
      BY <2>2 DEF OneProcess, ScopesAgree
    <2>6. FreshlyAttached' /\ CallsSeeTheSelection'
      BY <2>1, <2>2 DEF FreshlyAttached, Connected, CallsSeeTheSelection
    <2>7. VerifiedSoFar'
      BY <1>2, <2>3 DEF VerifiedSoFar
    <2> QED
      BY <1>1, <1>4, <2>4, <2>5, <2>6, <2>7 DEF ScopeInv
  <1>6. CASE Bind
    <2>1. /\ call.at = "bind" /\ call' = [call EXCEPT !.at = "read"] /\ orphans' = orphans
          /\ UNCHANGED <<desktop, selection>>
          /\ apps' = [apps EXCEPT ![KeyOf(call)] = call.handle]
      BY <1>6 DEF Bind, Bound
    <2>2. /\ call.op # "none" /\ call.op # "attach" /\ ~Rebinding /\ orphans = {}
          /\ call.chain = selection /\ call.handle = desktop
      BY <1>3, <2>1
      DEF WellFormed, ScopeInv, FreshlyAttached, Rebinding, CallsSeeTheSelection,
          OrphansOutsideRequests
    <2>3. /\ call'.op = call.op /\ call'.chain = call.chain /\ call'.handle = call.handle
          /\ call'.choice = call.choice /\ ~Rebinding'
      BY <1>3, <2>1, <2>2 DEF Worker, Rebinding
    <2>4. OrphansOutsideRequests' /\ FreshlyAttached' /\ CallsSeeTheSelection'
      BY <2>1, <2>2, <2>3
      DEF OrphansOutsideRequests, FreshlyAttached, CallsSeeTheSelection
    <2>5. \A k \in Name \X Name : apps'[k] \in {apps[k], desktop}
      BY <1>3, <2>1, <2>2
    <2>6. OneProcess'
      BY <1>2, <2>1, <2>2, <2>5 DEF ScopeInv, OneProcess, IsConnected
    <2>7. VerifiedSoFar' /\ ScopesAgree'
      BY <1>2, <2>1, <2>2, <2>3 DEF ScopeInv, VerifiedSoFar, ScopesAgree, AgreeAbove
    <2> QED
      BY <1>1, <1>4, <2>4, <2>6, <2>7 DEF ScopeInv
  <1>7. CASE OrphanStep
    <2>1. orphans # {} /\ call' = call
      BY <1>7 DEF OrphanStep, OrphanConnect, OrphanBind, OrphanSelect, OrphanRaises
    <2>2. pc \in {"idle", "body"} /\ call.op = "none" /\ health # "ATTACHED" /\ ~Rebinding
      BY <2>1 DEF ScopeInv, OrphansOutsideRequests, Rebinding
    <2>3. /\ OrphansOutsideRequests' /\ FreshlyAttached' /\ CallsSeeTheSelection'
          /\ VerifiedSoFar' /\ ScopesAgree' /\ ~Rebinding'
      BY <1>2, <2>1, <2>2
      DEF OrphansOutsideRequests, FreshlyAttached, CallsSeeTheSelection, Rebinding,
          VerifiedSoFar, ScopesAgree
    <2>4. OneProcess'
      <3> SUFFICES ASSUME IsConnected'
                   PROVE  /\ chain["process_id"] # None
                          /\ chain["process_id"] = desktop'
                          /\ selection'["process_id"] = desktop'
                          /\ environment = desktop'
                          /\ \A k \in Name \X Name : apps'[k] \in {None, desktop'}
                          /\ \A w \in orphans' : /\ w.op # "attach"
                                                 /\ w.handle = desktop'
                                                 /\ w.chain["process_id"] = desktop'
        BY <1>2 DEF OneProcess
      <3>1. /\ chain["process_id"] # None /\ chain["process_id"] = desktop
            /\ selection["process_id"] = desktop /\ environment = desktop
            /\ \A k \in Name \X Name : apps[k] \in {None, desktop}
            /\ \A w \in orphans : /\ w.op # "attach"
                                  /\ w.handle = desktop
                                  /\ w.chain["process_id"] = desktop
        BY <1>2, <2>2 DEF ScopeInv, OneProcess, IsConnected
      <3>2. CASE OrphanConnect
        BY <1>3, <3>1, <3>2 DEF OrphanConnect, WellFormed
      <3>3. CASE OrphanBind
        <4>1. PICK w \in orphans :
                /\ apps' = [apps EXCEPT ![KeyOf(w)] = w.handle]
                /\ UNCHANGED <<desktop, selection>>
                /\ orphans' \subseteq orphans \union {[w EXCEPT !.at = "read"]}
          BY <3>3 DEF OrphanBind, Bound
        <4>2. \A k \in Name \X Name : apps'[k] \in {apps[k], desktop}
          BY <1>3, <3>1, <4>1
        <4>3. /\ [w EXCEPT !.at = "read"].op = w.op
              /\ [w EXCEPT !.at = "read"].handle = w.handle
              /\ [w EXCEPT !.at = "read"].chain = w.chain
          BY <1>3 DEF Worker
        <4> QED
          BY <3>1, <4>1, <4>2, <4>3
      <3>4. CASE OrphanSelect
        <4>1. PICK w \in orphans :
                /\ w.op = "select" /\ selection' \in Selected(w)
                /\ orphans' = orphans \ {w} /\ UNCHANGED <<desktop, apps>>
          BY <3>4 DEF OrphanSelect
        <4>2. w \in Worker /\ w.choice \in Name
          BY <1>3, <4>1 DEF WellFormed
        <4>3. "process_id" \in SelectionField \ {w.stage}
              /\ "process_id" \notin DownstreamOf[w.stage]
          BY <4>2 DEF SelectionField, DownstreamOf, Worker
        <4>4. selection'["process_id"] = w.chain["process_id"]
          BY <4>1, <4>2, <4>3, SelectedFields
        <4> QED
          BY <3>1, <4>1, <4>4
      <3>5. CASE OrphanRaises
        BY <3>1, <3>5 DEF OrphanRaises
      <3> QED
        BY <1>7, <3>2, <3>3, <3>4, <3>5 DEF OrphanStep
    <2> QED
      BY <1>1, <1>4, <2>3, <2>4 DEF ScopeInv
  <1> QED
    BY <1>2, <1>5, <1>6, <1>7

-----------------------------------------------------------------------------
(* Part 5: theorems that hold when callers wait for abandoned workers.     *)

LEMMA InitScope == Init => ScopeInv
  <1> SUFFICES ASSUME Init PROVE ScopeInv
    OBVIOUS
  <1> USE DEF Init
  <1>1. LifeInv
    BY InitLife
  <1>2. /\ call.op = "none" /\ orphans = {} /\ ~Rebinding /\ ~IsConnected
        /\ chain = EmptyChain /\ pc = "idle" /\ served.stamp = EmptyChain
    BY DEF AdapterInit, NoCall, NotServed, Rebinding, IsConnected
  <1>3. OrphansOutsideRequests /\ OneProcess /\ FreshlyAttached /\ CallsSeeTheSelection
    BY <1>2 DEF OrphansOutsideRequests, OneProcess, FreshlyAttached, CallsSeeTheSelection
  <1>4. ChainIsClean /\ GuidedOrder /\ VerifiedSoFar /\ ScopesAgree /\ ServedUnderItsStamp
    BY <1>2, CleanChains
    DEF ChainIsClean, GuidedOrder, EmptyChain, Field, VerifiedSoFar, ScopesAgree,
        ServedUnderItsStamp
  <1> QED
    BY <1>1, <1>3, <1>4 DEF ScopeInv

\* ScopeInv is inductive when callers wait for abandoned workers.
LEMMA NextScope == ASSUME LateOrphans = FALSE
                   PROVE  ScopeInv /\ [Next]_vars => ScopeInv'
  <1> SUFFICES ASSUME ScopeInv, [Next]_vars PROVE ScopeInv'
    OBVIOUS
  <1>1. CASE Receive
    BY <1>1, ReceiveScope
  <1>2. CASE CallVerifyList \/ CallVerifySelect \/ CallResync \/ CallBody
    BY <1>2, CallScope
  <1>3. CASE Refuse
    BY <1>3, RefuseScope
  <1>4. CASE VerifyListed \/ VerifySelected \/ Resynced
    BY <1>4, VerifyListedScope, VerifySelectedScope, ResyncedScope
  <1>5. CASE Attached
    BY <1>5, AttachedScope
  <1>6. CASE Answered
    BY <1>6, AnsweredScope
  <1>7. CASE Workers
    BY <1>7, WorkersScope
  <1>8. CASE UNCHANGED vars
    <2>1. LifeInv'
      BY NextLife DEF ScopeInv
    <2> QED
      BY <1>8, <2>1
      DEF vars, adapterVars, sessionState, control,
          ScopeInv, OrphansOutsideRequests, Rebinding, IsConnected,
          OneProcess, FreshlyAttached, CallsSeeTheSelection, ChainIsClean, GuidedOrder,
          VerifiedSoFar, ScopesAgree, AgreeAbove, ServedUnderItsStamp, MatchesItsStamp
  <1> QED
    BY <1>1, <1>2, <1>3, <1>4, <1>5, <1>6, <1>7, <1>8 DEF Next, Progress

\* When callers wait for abandoned workers, the inductive invariant holds.
THEOREM ScopeInvariant == ASSUME LateOrphans = FALSE
                          PROVE  Spec => []ScopeInv
  BY InitScope, NextScope, PTL DEF Spec

\* Data served under a provenance stamp is of the process, project and design the
\* stamp names, and the stamped environment is that process's, if callers wait
\* for abandoned workers.
THEOREM ServedReadsMatchTheirStamp == ASSUME LateOrphans = FALSE
                                      PROVE  Spec => []ServedUnderItsStamp
  <1>1. ScopeInv => ServedUnderItsStamp
    BY DEF ScopeInv
  <1> QED
    BY <1>1, ScopeInvariant, PTL

\* Whenever an operation may run, the adapter is scoped to the selections the
\* session shows, if callers wait for abandoned workers.
THEOREM ScopesAlwaysAgree == ASSUME LateOrphans = FALSE
                             PROVE  Spec => []ScopeAgreement
  <1>1. ScopeInv => ScopeAgreement
    <2> SUFFICES ASSUME ScopeInv, health = "ATTACHED", pc \in {"idle", "body"},
                        chain["project"] # None
                 PROVE  SameSelection(Sanitized(selection), chain, SelectionField)
      BY DEF ScopeAgreement
    <2>1. ~Rebinding
      BY DEF ScopeInv, LifeInv, CallsFitControl, ChoicesAreNames, Rebinding
    <2> QED
      BY <2>1 DEF ScopeInv, ScopesAgree, AgreeAbove, Above
  <1> QED
    BY <1>1, ScopeInvariant, PTL

\* No stage is ever selected below one that is not, although the session takes
\* its chain from the adapter, if callers wait for abandoned workers.
THEOREM ChainInGuidedOrder == ASSUME LateOrphans = FALSE
                              PROVE  Spec => []GuidedOrder
  <1>1. ScopeInv => GuidedOrder
    BY DEF ScopeInv
  <1> QED
    BY <1>1, ScopeInvariant, PTL

\* What is served as re-verified is stamped.
VerifiedIsStamped == served.verified => served.stamp # EmptyChain

\* Only an answer to a read serves anything, and with a project selected.
LEMMA AnsweredStamped ==
  ASSUME ScopeInv, Answered, VerifiedIsStamped
  PROVE  VerifiedIsStamped'
  <1>1. PICK r \in Outcomes(call) :
          /\ Answer(r)
          /\ \/ UNCHANGED served
             \/ request.op \in {"inspect", "validate_native"} /\ Serve(r)
    BY DEF Answered
  <1>2. CASE UNCHANGED served
    BY <1>2 DEF VerifiedIsStamped
  <1>3. CASE request.op \in {"inspect", "validate_native"} /\ Serve(r)
    <2>1. pc = "body" /\ call \in Worker /\ call.op # "none"
      BY <1>1, AnswerScope DEF Answered
    <2>2. chain["project"] # None
      BY <1>3, <2>1, BodyScope
    <2>3. EmptyChain["project"] = None
      BY DEF EmptyChain, Field
    <2> QED
      BY <1>3, <2>2, <2>3 DEF Serve, VerifiedIsStamped
  <1> QED
    BY <1>1, <1>2, <1>3

\* A read right after a re-verification is of the project and design its stamp
\* names, if callers wait for abandoned workers: the counterexample to
\* serialization.py's promise needs a worker that writes late, and nothing else.
THEOREM WaitingCallersReadTheStampedDesign ==
  ASSUME LateOrphans = FALSE
  PROVE  Spec => []VerifiedReadIsOfStampedDesign
  <1>1. Init => VerifiedIsStamped
    BY DEF Init, VerifiedIsStamped, NotServed
  <1>2. ScopeInv /\ VerifiedIsStamped /\ [Next]_vars => VerifiedIsStamped'
    <2> SUFFICES ASSUME ScopeInv, VerifiedIsStamped, [Next]_vars
                 PROVE  VerifiedIsStamped'
      OBVIOUS
    <2>1. CASE Receive
      <3>1. served' = NotServed
        BY <2>1 DEF Receive, Attach, ListSelectionOptions, Select, Inspect, ValidateNative, Guarded
      <3> QED
        BY <3>1 DEF VerifiedIsStamped, NotServed
    <2>2. CASE Answered
      BY <2>2, AnsweredStamped
    <2>3. CASE UNCHANGED served
      BY <2>3 DEF VerifiedIsStamped
    <2>4. CASE Progress /\ ~Answered
      <3>1. UNCHANGED served
        BY <2>4 DEF Progress, CallVerifyList, CallVerifySelect, CallResync, CallBody, Calling,
               Refuse, VerifyListed, VerifySelected, Resynced, Attached
      <3> QED
        BY <3>1 DEF VerifiedIsStamped
    <2> QED
      BY <2>1, <2>2, <2>3, <2>4 DEF Next, Workers, vars
  <1>3. ScopeInv /\ VerifiedIsStamped => VerifiedReadIsOfStampedDesign
    BY DEF ScopeInv, ServedUnderItsStamp, MatchesItsStamp, VerifiedIsStamped,
           VerifiedReadIsOfStampedDesign
  <1> QED
    BY <1>1, <1>2, <1>3, ScopeInvariant, PTL DEF Spec

-----------------------------------------------------------------------------
HIDE DEF Op, Stage, PC, Verifying

(***************************************************************************)
(* The session implements the lifecycle the layers above it are built on:  *)
(* every step of a request is a step of SessionLifecycle or leaves its     *)
(* state alone, when callers wait for abandoned workers.  They have to:    *)
(* the session takes its chain from the adapter's answer to a select, and  *)
(* a worker that writes the adapter's selection late would put into that   *)
(* answer a selection nobody made.                                         *)
(***************************************************************************)

-----------------------------------------------------------------------------
(* Part 6: chains as the lifecycle sees them.                              *)

\* The fields that select, of a chain.
SelectionsOf(c) == [f \in SelectionField |-> c[f]]

\* The lifecycle's tables are the session's.
LEMMA LifecycleTables ==
  /\ Lifecycle!Stage = Stage /\ Lifecycle!SelectionField = SelectionField
  /\ Lifecycle!Upstream = Upstream
  /\ Lifecycle!DownstreamOf = DownstreamOf /\ Lifecycle!ClearFrom = ClearFrom
  BY DEF Lifecycle!Stage, Lifecycle!SelectionField, Lifecycle!Upstream,
         Lifecycle!DownstreamOf, Lifecycle!ClearFrom,
         Stage, SelectionField, Upstream, DownstreamOf, ClearFrom

LEMMA SelectionFields ==
  /\ SelectionField \subseteq Field
  /\ SelectionField = {"process_id"} \union Stage
  /\ \A s \in Stage : Upstream[s] \in SelectionField
  BY DEF SelectionField, Field, Stage, Upstream

\* A chain emptied, or emptied below its process, selects nothing more.
LEMMA EmptySelections ==
  /\ SelectionsOf(EmptyChain) = Lifecycle!NoSelections
  /\ \A p : SelectionsOf(OnlyProcess(p)) = [Lifecycle!NoSelections EXCEPT !["process_id"] = p]
  <1>1. SelectionsOf(EmptyChain) = Lifecycle!NoSelections
    BY SelectionFields, LifecycleTables DEF SelectionsOf, EmptyChain, Lifecycle!NoSelections
  <1>2. ASSUME NEW p
        PROVE  SelectionsOf(OnlyProcess(p)) = [Lifecycle!NoSelections EXCEPT !["process_id"] = p]
    <2>1. \A f \in Field : OnlyProcess(p)[f] = IF f = "process_id" THEN p ELSE None
      BY DEF OnlyProcess, EmptyChain
    <2>2. "process_id" \in SelectionField
      BY SelectionFields
    <2> QED
      BY <2>1, <2>2, SelectionFields, LifecycleTables DEF SelectionsOf, Lifecycle!NoSelections
  <1> QED
    BY <1>1, <1>2

LEMMA ClearedSelections ==
  ASSUME NEW c, NEW F
  PROVE  SelectionsOf(Cleared(c, F))
           = [f \in SelectionField |-> IF f \in F THEN None ELSE SelectionsOf(c)[f]]
  BY SelectionFields DEF SelectionsOf, Cleared

\* What the request's select answers is the session's chain with the stage selected
\* and those below it cleared, because the adapter's selection is the session's.
LEMMA SelectIsOfTheSession ==
  ASSUME ScopeInv, pc = "body", call \in Worker, call.op = "select", call.choice \in Name,
         NEW c \in Selected(call)
  PROVE  \E v \in Lifecycle!ValueOf(call.stage) :
            SelectionsOf(Sanitized(c)) =
              [f \in SelectionField |->
                 IF f = call.stage THEN v
                 ELSE IF f \in DownstreamOf[call.stage] THEN None ELSE SelectionsOf(chain)[f]]
  <1> DEFINE s == call.stage
             v == Sanitized(c)[s]
  <1>1. /\ call.chain = selection /\ PrerequisiteMet(s) /\ selection \in Chain
        /\ chain["project"] # None => AgreeAbove("end")
        /\ IsConnected /\ ~Rebinding
    BY BodyScope DEF Worker
  <1>2. s \in Stage /\ c \in Chain /\ s \in Field
    BY SelectedType DEF Worker, Field, Stage
  <1>3. /\ c[s] = ValueOf(call)
        /\ \A f \in SelectionField \ {s} :
              c[f] = IF f \in DownstreamOf[s] THEN None ELSE selection[f]
    BY <1>1, SelectedFields
  <1>4. v \in Lifecycle!ValueOf(s)
    <2>1. CASE s = "variation"
      <3>1. v = HashOf[call.choice]
        BY <1>2, <1>3, <2>1, SanitizedFields DEF ValueOf, NameField
      <3> QED
        BY <2>1, <3>1, ChainAssumption DEF Lifecycle!ValueOf
    <2>2. CASE s # "variation"
      <3>1. s \in NameField
        BY <1>2, <2>2 DEF Stage, NameField
      <3>2. v = Clean[call.choice]
        BY <1>2, <1>3, <2>2, <3>1, SanitizedFields DEF ValueOf
      <3> QED
        BY <2>2, <3>2, CleanName DEF Lifecycle!ValueOf
    <2> QED
      BY <2>1, <2>2
  <1>5. \A f \in Field : Sanitized(c)[f] = IF f \in NameField /\ c[f] # None THEN Clean[c[f]] ELSE c[f]
    BY DEF Sanitized
  <1>6. \A f \in Field : Sanitized(selection)[f]
                           = IF f \in NameField /\ selection[f] # None THEN Clean[selection[f]]
                             ELSE selection[f]
    BY DEF Sanitized
  <1>7. Ordered(chain)
    BY DEF ScopeInv, GuidedOrder, Ordered
  <1>8. ASSUME NEW f \in SelectionField \ {s}, f \notin DownstreamOf[s]
        PROVE  Sanitized(selection)[f] = chain[f]
    <2>1. CASE f = "process_id"
      <3>1. selection["process_id"] = chain["process_id"]
        BY <1>1 DEF ScopeInv, OneProcess
      <3>2. Sanitized(selection)[f] = selection[f]
        BY <1>1, <2>1, SanitizedFields DEF Field, NameField
      <3> QED
        BY <2>1, <3>1, <3>2
    <2>2. CASE f # "process_id"
      <3>1. s # "project"
        BY <1>8, <2>2 DEF SelectionField, Stage, DownstreamOf
      <3>2. chain[Upstream[s]] # None
        BY <1>1, <3>1 DEF PrerequisiteMet
      <3>3. chain["project"] # None
        BY <1>2, <1>7, <3>1, <3>2 DEF Ordered, Upstream, Stage
      <3> QED
        BY <1>1, <3>3 DEF AgreeAbove, SameSelection, Above
    <2> QED
      BY <2>1, <2>2
  <1>9. ASSUME NEW f \in SelectionField \ {s}
        PROVE  Sanitized(c)[f] = IF f \in DownstreamOf[s] THEN None ELSE chain[f]
    <2>1. f \in Field
      BY SelectionFields
    <2>2. CASE f \in DownstreamOf[s]
      BY <1>3, <1>5, <1>9, <2>1, <2>2
    <2>3. CASE f \notin DownstreamOf[s]
      <3>1. Sanitized(c)[f] = Sanitized(selection)[f]
        BY <1>3, <1>5, <1>6, <1>9, <2>1, <2>3
      <3> QED
        BY <1>8, <1>9, <2>3, <3>1
    <2> QED
      BY <2>2, <2>3
  <1> HIDE DEF v, s
  <1>10. SelectionsOf(Sanitized(c)) =
           [f \in SelectionField |->
              IF f = s THEN v ELSE IF f \in DownstreamOf[s] THEN None ELSE SelectionsOf(chain)[f]]
    BY <1>9 DEF SelectionsOf, v
  <1> QED
    BY <1>4, <1>10 DEF s

-----------------------------------------------------------------------------
(* Part 7: each step maps to a step of the lifecycle, or to none.          *)

LifecycleVars == <<health, SelectionsOf(chain), environment>>

\* A chain that does not change selects what it did.
LEMMA SessionStutters ==
  ASSUME UNCHANGED sessionState
  PROVE  UNCHANGED LifecycleVars
  BY DEF sessionState, LifecycleVars, SelectionsOf

LEMMA LosesTheSession ==
  ASSUME NEW cause, ToLost(cause), health \in {"ATTACHED", "SUSPECT"}
  PROVE  Lifecycle!Lose
  <1>1. SelectionsOf(chain)' = SelectionsOf(EmptyChain)
    BY DEF ToLost, SelectionsOf
  <1> QED
    BY <1>1, EmptySelections DEF ToLost, Lifecycle!Lose, SelectionsOf

\* A re-verification recovers the session, with what it confirmed, or loses it.
LEMMA VerificationIsAStep ==
  ASSUME LifeInv, pc \in Verifying, VerifyMove
  PROVE  Lifecycle!Next \/ UNCHANGED LifecycleVars
  <1>1. health \in {"ATTACHED", "SUSPECT"}
    BY DEF LifeInv, HealthFitsControl, Verifying
  <1>2. CASE (\E f \in Fault : VerifyFails(f)) \/ (ToLost("none") /\ EndVerify)
    <2>1. PICK cause : ToLost(cause)
      BY <1>2 DEF VerifyFails, FaultInVerify
    <2> QED
      BY <1>1, <2>1, LosesTheSession DEF Lifecycle!Next
  <1>3. ASSUME health = "SUSPECT", NEW s \in Stage, ResetFrom(s)
        PROVE  Lifecycle!Next
    <2>1. health' = "ATTACHED" /\ environment' = environment
          /\ chain' = Cleared(chain, ClearFrom[s])
      BY <1>3 DEF ResetFrom, Keep
    <2>2. SelectionsOf(chain)' = SelectionsOf(Cleared(chain, ClearFrom[s]))
      BY <2>1 DEF SelectionsOf
    <2>3. SelectionsOf(chain)'
            = [f \in SelectionField |-> IF f \in ClearFrom[s] THEN None ELSE SelectionsOf(chain)[f]]
      BY <2>2, ClearedSelections
    <2>4. Lifecycle!Recover
      BY <1>3, <2>1, <2>3, LifecycleTables DEF Lifecycle!Recover, SelectionsOf
    <2> QED
      BY <2>4 DEF Lifecycle!Next
  <1>4. CASE health = "SUSPECT" /\ Keep("ATTACHED", chain)
    <2>1. Lifecycle!Recover
      BY <1>4 DEF Keep, Lifecycle!Recover
    <2> QED
      BY <2>1 DEF Lifecycle!Next
  <1>5. CASE UNCHANGED sessionState
    BY <1>5, SessionStutters
  <1> QED
    BY <1>2, <1>3, <1>4, <1>5 DEF VerifyMove

\* An attach that succeeds attaches; one that fails leaves no session.
LEMMA AttachIsAStep ==
  ASSUME ScopeInv, Attached
  PROVE  Lifecycle!Next \/ UNCHANGED LifecycleVars
  <1>1. PICK r \in Outcomes(call) :
          /\ Answer(r)
          /\ \/ UNCHANGED sessionState
             \/ health' = "DETACHED" /\ chain' = EmptyChain /\ environment' = None
             \/ /\ r.kind = "ok"
                /\ health' = "ATTACHED" /\ chain' = OnlyProcess(call.handle)
                /\ environment' = r.environment
    BY DEF Attached
  <1>2. call.op = "attach" /\ call \in Worker /\ call.handle \in Process
    BY DEF Attached, ScopeInv, LifeInv, TypeOK, AdapterTypeOK, CallsFitControl,
           ChoicesAreNames, WellFormed
  <1>3. CASE UNCHANGED sessionState
    BY <1>3, SessionStutters
  <1>4. CASE health' = "DETACHED" /\ chain' = EmptyChain /\ environment' = None
    <2>1. SelectionsOf(chain)' = Lifecycle!NoSelections
      BY <1>4, EmptySelections DEF SelectionsOf
    <2> QED
      BY <1>4, <2>1 DEF Lifecycle!FailToAttach, Lifecycle!Next, SelectionsOf
  <1>5. CASE /\ r.kind = "ok"
             /\ health' = "ATTACHED" /\ chain' = OnlyProcess(call.handle)
             /\ environment' = r.environment
    <2>0. PICK p \in Process : p = call.handle
      BY <1>2
    <2>1. call.at = "read" /\ r.environment = desktop
      BY <1>2, <1>5, OutcomeFacts DEF Values
    <2>2. r.environment = call.handle
      BY <1>2, <2>1 DEF ScopeInv, FreshlyAttached, Rebinding
    <2>3. SelectionsOf(chain)' = [Lifecycle!NoSelections EXCEPT !["process_id"] = call.handle]
      <3>1. SelectionsOf(chain)' = SelectionsOf(OnlyProcess(call.handle))
        BY <1>5 DEF SelectionsOf
      <3> QED
        BY <3>1, EmptySelections
    <2>4. Lifecycle!Attach(p)
      BY <1>5, <2>0, <2>2, <2>3 DEF Lifecycle!Attach, SelectionsOf
    <2> QED
      BY <2>4 DEF Lifecycle!Next
  <1> QED
    BY <1>1, <1>3, <1>4, <1>5

\* An operation loses the session, doubts it, selects in it or leaves it alone.
LEMMA OperationIsAStep ==
  ASSUME ScopeInv, Answered
  PROVE  Lifecycle!Next \/ UNCHANGED LifecycleVars
  <1>1. PICK r \in Outcomes(call) :
          /\ Answer(r)
          /\ \/ FaultInOperation(r.kind)
             \/ UNCHANGED sessionState
             \/ r.kind = "ok" /\ request.op = "select" /\ Keep(health, Sanitized(r.chain))
    BY DEF Answered
  <1>2. pc = "body" /\ call.op # "none" /\ call \in Worker
    BY <1>1, AnswerScope DEF Answered
  <1>3. health = "ATTACHED" /\ call.op = request.op
        /\ (call.op = "select" => PrerequisiteMet(call.stage))
    BY <1>2, BodyScope
  <1>4. CASE FaultInOperation(r.kind)
    <2>1. CASE ToLost(r.kind)
      BY <1>3, <2>1, LosesTheSession DEF Lifecycle!Next
    <2>2. CASE UNCHANGED sessionState
      BY <2>2, SessionStutters
    <2>3. CASE Keep("SUSPECT", chain)
      BY <1>3, <2>3 DEF Keep, Lifecycle!Doubt, Lifecycle!Next
    <2> QED
      BY <1>4, <2>1, <2>2, <2>3 DEF FaultInOperation
  <1>5. CASE UNCHANGED sessionState
    BY <1>5, SessionStutters
  <1>6. CASE r.kind = "ok" /\ request.op = "select" /\ Keep(health, Sanitized(r.chain))
    <2>1. call.choice \in Name /\ r.chain \in Selected(call)
      BY <1>1, <1>3, <1>6, AnswerScope
    <2>2. PICK v \in Lifecycle!ValueOf(call.stage) :
            SelectionsOf(Sanitized(r.chain)) =
              [f \in SelectionField |->
                 IF f = call.stage THEN v
                 ELSE IF f \in DownstreamOf[call.stage] THEN None ELSE SelectionsOf(chain)[f]]
      BY <1>2, <1>3, <1>6, <2>1, SelectIsOfTheSession
    <2>3. SelectionsOf(chain)' = SelectionsOf(Sanitized(r.chain))
      BY <1>6 DEF Keep, SelectionsOf
    <2>4. PICK s \in Stage : s = call.stage
      BY <1>2 DEF Worker
    <2>5. PICK value \in Lifecycle!ValueOf(s) : value = v
      BY <2>2, <2>4
    <2>6. call.stage # "project" => SelectionsOf(chain)[Upstream[call.stage]] # None
      BY <1>3, <1>6, <2>4, SelectionFields DEF PrerequisiteMet, SelectionsOf
    <2>7. Lifecycle!Select(s, value)
      BY <1>3, <1>6, <2>2, <2>3, <2>4, <2>5, <2>6, LifecycleTables
      DEF Keep, Lifecycle!Select, SelectionsOf
    <2> QED
      BY <2>5, <2>7, LifecycleTables DEF Lifecycle!Next
  <1> QED
    BY <1>1, <1>4, <1>5, <1>6

LEMMA StepIsAStep ==
  ASSUME ScopeInv, [Next]_vars
  PROVE  Lifecycle!Next \/ UNCHANGED LifecycleVars
  <1>1. CASE VerifyListed \/ VerifySelected \/ Resynced
    <2>1. LifeInv
      BY DEF ScopeInv
    <2>2. pc \in Verifying /\ VerifyMove
      BY <1>1, <2>1, VerifyListedLife, VerifySelectedLife, ResyncedLife
      DEF VerifyListed, VerifySelected, Resynced, Verifying
    <2> QED
      BY <2>1, <2>2, VerificationIsAStep
  <1>2. CASE Attached
    BY <1>2, AttachIsAStep
  <1>3. CASE Answered
    BY <1>3, OperationIsAStep
  <1>4. CASE Receive \/ Workers \/ Refuse \/ UNCHANGED vars
             \/ CallVerifyList \/ CallVerifySelect \/ CallResync \/ CallBody
    <2>1. UNCHANGED sessionState
      BY <1>4
      DEF Receive, Attach, ListSelectionOptions, Select, Inspect, ValidateNative, Guarded,
          Workers, Refuse, vars, CallVerifyList, CallVerifySelect, CallResync, CallBody, Calling
    <2> QED
      BY <2>1, SessionStutters
  <1> QED
    BY <1>1, <1>2, <1>3, <1>4 DEF Next, Progress

-----------------------------------------------------------------------------
(* Part 8: the theorem.                                                    *)

\* The session implements its lifecycle: its selections change only because the user
\* made one, because a re-verification dropped what it could not confirm, or because
\* the session ended, if callers wait for abandoned workers.
THEOREM SessionImplementsLifecycle == ASSUME LateOrphans = FALSE
                                      PROVE  Spec => ImplementsLifecycle
  <1>1. Init => Lifecycle!Init
    BY EmptySelections DEF Init, Lifecycle!Init, SelectionsOf
  <1>2. ScopeInv /\ [Next]_vars => [Lifecycle!Next]_(Lifecycle!lifecycleVars)
    BY StepIsAStep DEF Lifecycle!lifecycleVars, LifecycleVars, SelectionsOf
  <1> QED
    BY <1>1, <1>2, ScopeInvariant, PTL DEF Spec, ImplementsLifecycle, Lifecycle!Spec
=============================================================================
