------------------------------ MODULE Findings ------------------------------
(***************************************************************************)
(* findings/: the receipt gate, the merge of the two streams, and the text *)
(* that shows what came of it.                                             *)
(*                                                                         *)
(* A candidate is an object of unknown provenance, known by what happens   *)
(* when it is handled: reading its class, reducing it to plain data and    *)
(* validating that data may each raise. Heap gives the objects its two     *)
(* untyped fields reach: a type and what a container holds, cycles allowed.*)
(***************************************************************************)
EXTENDS Values, SequencesExt

CONSTANTS Heap, Blank

Containers == {"dict", "list"}

RejectionReasons ==
  {"not_a_finding", "schema_invalid", "non_inert_value", "evidence_incomplete",
   "source_mismatch"}

\* A finding that nothing is said against is none of those.
ASSUME AcceptanceAssumption == None \notin RejectionReasons

\* Objects are held by containers alone, and only objects of the heap are.
ASSUME HeapAssumption ==
  /\ IsFiniteSet(DOMAIN Heap)
  /\ \A node \in DOMAIN Heap :
       /\ Heap[node].holds \in Seq(DOMAIN Heap)
       /\ Heap[node].type \notin Containers => Heap[node].holds = <<>>

EvidenceFields ==
  {"inspected", "observed_values", "calculation_ref", "reason_flagged",
   "rule_version", "limitations_and_assumptions"}

GateStream == "gate"
EngineStream == "engine_rule"

----------------------------------------------------------------------------
(* receipt.py *)

\* The places in which these objects hold another one.
EdgesOf(nodes) == UNION {{node} \X DOMAIN Heap[node].holds : node \in nodes}

HeapEdges == Cardinality(EdgesOf(DOMAIN Heap))

\* Mutant: an object met again ends the walk.
WalkStepEnding(walk) ==
  LET node == Last(walk.pending)
      rest == Front(walk.pending)
      object == Heap[node]
  IN CASE object.type \in Containers /\ node \in walk.seen ->
            [walk EXCEPT !.pending = <<>>]
       [] object.type \in Containers /\ node \notin walk.seen ->
            [walk EXCEPT !.pending = rest \o object.holds, !.seen = @ \cup {node}]
       [] object.type = "inert" -> [walk EXCEPT !.pending = rest]
       [] OTHER -> [walk EXCEPT !.found = TRUE]

\* One turn of the walk: pop the last object, skip or open a container.
WalkStep(walk) ==
  LET node == Last(walk.pending)
      rest == Front(walk.pending)
      object == Heap[node]
  IN CASE object.type \in Containers /\ node \in walk.seen ->
            [walk EXCEPT !.pending = rest]
       [] object.type \in Containers /\ node \notin walk.seen ->
            [walk EXCEPT !.pending = rest \o object.holds, !.seen = @ \cup {node}]
       [] object.type = "inert" -> [walk EXCEPT !.pending = rest]
       [] OTHER -> [walk EXCEPT !.found = TRUE]

\* Every container is opened once, so the walk takes at most one turn for the
\* root and one for each edge of the heap.
CarriesNonInert(root) ==
  LET walk[turn \in 0..(HeapEdges + 1)] ==
        IF turn = 0 THEN [pending |-> <<root>>, seen |-> {}, found |-> FALSE]
        ELSE IF walk[turn - 1].pending = <<>> \/ walk[turn - 1].found
             THEN walk[turn - 1]
             ELSE WalkStep(walk[turn - 1])
  IN walk[HeapEdges + 1].found

NonInertFields(candidate) ==
  {field \in {"observed_values", "conditions"} : CarriesNonInert(candidate[field])}

EmptyEvidence(candidate) == EvidenceFields \ candidate.evidence

\* Only exact text is repeated, and only as a label; a read that raises gives
\* none.
ClaimedId(candidate) ==
  IF candidate.claim = "text" THEN candidate.finding_id ELSE None

\* The gates in order; after the first two the id is the validated one.
RejectionReason(candidate) ==
  CASE candidate.class # "Finding" -> "not_a_finding"
    [] /\ candidate.class = "Finding"
       /\ candidate.reduces = "raises" \/ candidate.validates # "ok" -> "schema_invalid"
    [] OTHER -> IF NonInertFields(candidate) # {} THEN "non_inert_value"
                ELSE IF EmptyEvidence(candidate) # {} THEN "evidence_incomplete"
                ELSE None

RejectedFinding(candidate, stream, position, reason) ==
  [arrived_on |-> stream, position |-> position, reason |-> reason,
   claimed_finding_id |->
     IF reason \in {"not_a_finding", "schema_invalid"} THEN ClaimedId(candidate)
     ELSE candidate.finding_id]

\* The validated copy: an exact Finding, whatever class brought it.
AcceptedFinding(candidate, stream, position) ==
  [source |-> candidate.source, finding_id |-> candidate.finding_id,
   arrived_on |-> stream, position |-> position,
   observed_values |-> candidate.observed_values, conditions |-> candidate.conditions,
   evidence |-> candidate.evidence, suggests |-> candidate.suggests]

----------------------------------------------------------------------------
(* merge.py *)

SourceMismatch(candidate, stream) == candidate.source # stream

\* Receipt first; only a finding that passed it is asked for its source.
Reason(candidate, stream) ==
  IF RejectionReason(candidate) # None THEN RejectionReason(candidate)
  ELSE IF SourceMismatch(candidate, stream) THEN "source_mismatch" ELSE None

\* Mutant: the engine's positions are counted on from the gates'.
ArrivalsCountedOn(gateFindings, engineFindings) ==
  [i \in DOMAIN gateFindings |->
     [candidate |-> gateFindings[i], stream |-> GateStream, position |-> i - 1]]
  \o
  [i \in DOMAIN engineFindings |->
     [candidate |-> engineFindings[i], stream |-> EngineStream,
      position |-> Len(gateFindings) + i - 1]]

\* The gate stream first, each stream in the order it came.
Arrivals(gateFindings, engineFindings) ==
  [i \in DOMAIN gateFindings |->
     [candidate |-> gateFindings[i], stream |-> GateStream, position |-> i - 1]]
  \o
  [i \in DOMAIN engineFindings |->
     [candidate |-> engineFindings[i], stream |-> EngineStream, position |-> i - 1]]

Unidentified(accepted) ==
  Kept([i \in DOMAIN accepted |-> i - 1],
       {i \in DOMAIN accepted : accepted[i].finding_id \in Blank})

\* Mutant: findings without an id are taken for the same one.
IdCollisionsOfBlanks(accepted) ==
  LET sharing(i) ==
        Kept([j \in DOMAIN accepted |-> j - 1],
             {j \in DOMAIN accepted : accepted[j].finding_id = accepted[i].finding_id})
      groups == [i \in DOMAIN accepted |-> sharing(i)]
      firsts == Kept([i \in DOMAIN accepted |-> i],
                     {i \in DOMAIN accepted : Len(groups[i]) > 1 /\ groups[i][1] = i - 1})
  IN [k \in DOMAIN firsts |-> groups[firsts[k]]]

\* The positions of each id that is there more than once, in the order the
\* ids were first seen. A blank id is nobody's.
IdCollisions(accepted) ==
  LET sharing(i) ==
        Kept([j \in DOMAIN accepted |-> j - 1],
             {j \in DOMAIN accepted : accepted[j].finding_id = accepted[i].finding_id})
      groups == [i \in DOMAIN accepted |-> sharing(i)]
      firsts == Kept([i \in DOMAIN accepted |-> i],
                     {i \in DOMAIN accepted : /\ accepted[i].finding_id \notin Blank
                                              /\ Len(groups[i]) > 1
                                              /\ groups[i][1] = i - 1})
  IN [k \in DOMAIN firsts |-> groups[firsts[k]]]

MergeFindings(gateFindings, engineFindings) ==
  LET arrivals == Arrivals(gateFindings, engineFindings)
      passed == {i \in DOMAIN arrivals :
                   Reason(arrivals[i].candidate, arrivals[i].stream) = None}
      kept == Kept(arrivals, passed)
      refused == Kept(arrivals, DOMAIN arrivals \ passed)
      accepted == [i \in DOMAIN kept |->
        AcceptedFinding(kept[i].candidate, kept[i].stream, kept[i].position)]
  IN [accepted |-> accepted,
      rejected |-> [i \in DOMAIN refused |->
        RejectedFinding(refused[i].candidate, refused[i].stream, refused[i].position,
                        Reason(refused[i].candidate, refused[i].stream))],
      id_collisions |-> IdCollisions(accepted),
      unidentified |-> Unidentified(accepted)]

----------------------------------------------------------------------------
(* render.py: the entries and notices of the text, in order.               *)

Part(kind, of) == [kind |-> kind, of |-> of]

If(condition, kind) == IF condition THEN <<Part(kind, None)>> ELSE <<>>

FindingsTemplateText(receipt) ==
  LET accepted == receipt.accepted
      rejected == receipt.rejected
      any == accepted # <<>> \/ rejected # <<>>
  IN <<Part("counts", <<Len(accepted), Len(rejected)>>)>>
     \o If(accepted # <<>>, "accepted_heading")
     \o [i \in DOMAIN accepted |-> Part("accepted", accepted[i])]
     \o If(accepted = <<>>, "no_findings")
     \o If(rejected # <<>>, "refused_heading")
     \o [i \in DOMAIN rejected |-> Part("refused", rejected[i])]
     \o If(accepted # <<>>, "attribution")
     \o If(rejected # <<>>, "refusal_provenance")
     \o If(any, "passthrough")
     \o If(\E i \in DOMAIN accepted : accepted[i].suggests, "suggested_action")
     \o If(any, "presentation")
=============================================================================
