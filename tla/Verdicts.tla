------------------------------ MODULE Verdicts ------------------------------
(***************************************************************************)
(* One run of the program through its pure layers: the server is started   *)
(* and the machine checked; then either a diagnostics bundle is built, or  *)
(* a caller that holds what was read of a design takes it on: one snapshot *)
(* is assembled, the gates judge it, the metrics are computed from the     *)
(* data they judged, the engine's findings join the gates' own, and the    *)
(* data are exported. The tools from the snapshot on are deferred by the   *)
(* server (tool_surface.py); the layers keep no state, so the calls are    *)
(* made in one order here.                                                 *)
(*                                                                         *)
(* A request is what one run meets: the command line, the machine, the     *)
(* environment of the attached session and the log; the pieces the caller  *)
(* holds, the target it names, which of the four findings it hands to      *)
(* compute_metrics, what the engine returned, and the reference impedance  *)
(* and the free text of the provenance.                                    *)
(***************************************************************************)
EXTENDS Snapshot, Gating, Metrics, ExportContent, Findings, Preflight

CONSTANTS Requests, InertNode

Number == Int \cup NonFinite

\* The shapes that the contract's schemas and the probes give these inputs.
MachineOK(machine) ==
  /\ IsFiniteSet(machine.roots)
  /\ \A root \in machine.roots : root.digits \in Nat
  /\ machine.pyaedt.installed \in BOOLEAN
  /\ machine.pyaedt.version \in Version \cup {Unparseable, None}
  /\ machine.python \in Version \cup {Unparseable}

AuditRecordOK(record) ==
  /\ record = [field \in DOMAIN record |-> record[field]]
  /\ {"timestamp", "tool_name", "risk_tier", "outcome", "duration", "session_degraded",
      "selection_state", "sanitized_arguments", "snapshot_id"} \subseteq DOMAIN record
  /\ DOMAIN record.selection_state = SelectionKeys
  /\ IsFiniteSet(DOMAIN record.sanitized_arguments)

\* Only what passes the schema is known to have a finding's fields.
CandidateOK(candidate) ==
  candidate.class = "Finding" /\ candidate.validates = "ok" =>
    /\ {candidate.observed_values, candidate.conditions} \subseteq DOMAIN Heap
    /\ candidate.evidence \subseteq EvidenceFields

RequestOK(r) ==
  /\ MachineOK(r.machine)
  /\ r.environment # None => r.environment.aedt_version \in Version \cup {Unparseable}
  /\ r.log # None => \A i \in DOMAIN r.log.records : AuditRecordOK(r.log.records[i])
  /\ IsRead(r.held.solve_state) =>
       /\ IsFiniteSet(DOMAIN r.held.solve_state.solution_exists)
       /\ r.held.solve_state.available_signals \in DOMAIN Heap
  /\ IsRead(r.held.solved_data) =>
       /\ r.held.solved_data.frequencies \in Seq(Number)
       /\ \A key \in DOMAIN r.held.solved_data.s_parameters :
            r.held.solved_data.s_parameters[key] \in Seq([re : Number, im : Number])
       /\ IsFiniteSet(DOMAIN r.held.solved_data.s_parameters)
       /\ \A key \in DOMAIN r.held.solved_data.s_parameters :
            Canonical(key) => {key.row, key.column} \subseteq Nat
  /\ {r.held.intent, r.parameter} \subseteq Number \cup {None}
  /\ r.reference_impedance \in Number
  /\ r.supply \subseteq 1..4
  /\ r.engine \in Seq(ToSet(r.engine))
  /\ \A i \in DOMAIN r.engine : CandidateOK(r.engine[i])
  /\ r.provenance \in Seq(ToSet(r.provenance))

ASSUME RequestsAssumption == \A r \in Requests : RequestOK(r)

ASSUME InertNodeAssumption == InertNode \in DOMAIN Heap /\ Heap[InertNode].type = "inert"

VARIABLES phase, request, adapter, report, bundle,
          snapshot, gates, metrics, receipt, text, touchstone, csv

machineVars == <<adapter, report, bundle>>
designVars == <<snapshot, gates, metrics, receipt, text, touchstone, csv>>
vars == <<phase, request, machineVars, designVars>>

Init ==
  /\ phase = "launched"
  /\ request \in Requests
  /\ adapter = None
  /\ report = None
  /\ bundle = None
  /\ snapshot = None
  /\ gates = None
  /\ metrics = None
  /\ receipt = None
  /\ text = None
  /\ touchstone = None
  /\ csv = None

Move(from, to) ==
  /\ phase = from
  /\ phase' = to
  /\ UNCHANGED request

\* main: a refusal ends the process, and so does an import that raises.
Start ==
  /\ Move("launched", "started")
  /\ adapter' = BuildAdapter(ResolveAdapterKind(request.adapter, request.machine),
                             request.machine)
  /\ UNCHANGED <<report, bundle, designVars>>

Serves == adapter \in {"live", "fake"}

Report ==
  /\ Move("started", "held")
  /\ Serves
  /\ report' = PreflightEnvironment(request.machine, request.environment)
  /\ UNCHANGED <<adapter, bundle, designVars>>

\* The bundle makes a report of its own.
Bundle ==
  /\ Move("held", "bundled")
  /\ bundle' = BuildDiagnosticsBundle(
                 PreflightEnvironment(request.machine, request.environment), request.log)
  /\ UNCHANGED <<adapter, report, designVars>>

\* A request whose pieces make no snapshot goes no further.
Assemble ==
  /\ Move("held", "assembled")
  /\ snapshot' = AssembleSnapshot(request.held, "snap")
  /\ UNCHANGED <<machineVars, gates, metrics, receipt, text, touchstone, csv>>

Judge ==
  /\ Move("assembled", "judged")
  /\ snapshot.arm = "DesignSnapshot"
  /\ gates' = EvaluateGates(snapshot, request.parameter)
  /\ UNCHANGED <<machineVars, snapshot, metrics, receipt, text, touchstone, csv>>

\* The findings the caller hands on, in their order.
Supplied == Kept(gates, request.supply)

\* Without solved data there is nothing to hand to compute_metrics.
Compute ==
  /\ Move("judged", "computed")
  /\ metrics' = IF IsRead(snapshot.solved_data)
                THEN ComputeMetrics(Supplied, snapshot.solved_data, snapshot.intent,
                                    request.reference_impedance)
                ELSE None
  /\ UNCHANGED <<machineVars, snapshot, gates, receipt, text, touchstone, csv>>

\* A gate's finding at the receipt gate: freshness carries the signals of the
\* solve state as they came, every other value is plain text or a number.
AsCandidate(finding) ==
  [class |-> "Finding", reduces |-> "plain", validates |-> "ok", claim |-> "text",
   source |-> finding.source, finding_id |-> finding.finding_id,
   observed_values |-> IF "available_signals" \in DOMAIN finding.observed
                       THEN finding.observed.available_signals ELSE InertNode,
   conditions |-> InertNode,
   evidence |-> IF DOMAIN finding.observed = {} THEN EvidenceFields \ {"observed_values"}
                ELSE EvidenceFields,
   suggests |-> FALSE]

Merge ==
  /\ Move("computed", "merged")
  /\ receipt' = MergeFindings([i \in DOMAIN gates |-> AsCandidate(gates[i])],
                              request.engine)
  /\ UNCHANGED <<machineVars, snapshot, gates, metrics, text, touchstone, csv>>

Render ==
  /\ Move("merged", "rendered")
  /\ text' = FindingsTemplateText(receipt)
  /\ UNCHANGED <<machineVars, snapshot, gates, metrics, receipt, touchstone, csv>>

Export ==
  /\ Move("rendered", "exported")
  /\ IsRead(snapshot.solved_data)
  /\ touchstone' = TouchstoneContent(snapshot.solved_data, request.provenance)
  /\ csv' = CsvContent(snapshot.solved_data, request.provenance)
  /\ UNCHANGED <<machineVars, snapshot, gates, metrics, receipt, text>>

Next ==
  Start \/ Report \/ Bundle
  \/ Assemble \/ Judge \/ Compute \/ Merge \/ Render \/ Export

Spec == Init /\ [][Next]_vars

----------------------------------------------------------------------------
(* The machine                                                             *)

\* The versions a verdict about AEDT may rest on: the attached one when it can
\* be read, every install that counts otherwise.
AedtInQuestion ==
  LET environment == request.environment
      installed == {ParseAedtEnvVarName(root) : root \in
                      {r \in request.machine.roots : r.prefix = "AWP_ROOT" => r.holdsAedt}}
  IN IF environment # None /\ environment.aedt_version # Unparseable
     THEN {environment.aedt_version} ELSE installed

\* A report says "ok" exactly when Python, PyAEDT and some AEDT in question are
\* at or above their floors; it names an AEDT version exactly when there is
\* only one in question and always shows all of them; and what the start
\* refused for and what the report shows of PyAEDT is the same answer, whatever
\* the command line said (preflight/assembler.py, adapter_selection.py).
ReportAgreesWithEvidence ==
  report # None =>
    LET named == report.environment.aedt_version
        atLeast(version, floor) == version # Unparseable /\ ~ Before(version, floor)
        metadata == request.machine.pyaedt
        readable == metadata.installed /\ metadata.version # None
        shown(i) == report.checks[i].detected
    IN /\ report.overall = "ok" <=>
            /\ \E version \in AedtInQuestion : atLeast(version, AedtFloor)
            /\ readable /\ atLeast(metadata.version, PyaedtPin)
            /\ atLeast(request.machine.python, PythonFloor)
       /\ shown(1) = AedtInQuestion
       /\ IF Cardinality(AedtInQuestion) = 1 THEN AedtInQuestion = {named}
          ELSE named = None
       /\ named = None <=> report.environment.aedt_version_source = None
       /\ adapter = "live" => shown(2) # {}
       /\ shown(2) = {} => adapter = "fake" /\ request.adapter # None

ASSUME BlurAssumption == None # "a name"

\* A record with every name in it replaced by the same one.
Blurred(record) ==
  [record EXCEPT
     !.tool_name = IF @ \in Registered THEN @ ELSE "<unregistered>",
     !.selection_state = [key \in DOMAIN @ |-> IF @[key] = None THEN None ELSE "a name"],
     !.sanitized_arguments =
        [i \in 1..Cardinality(DOMAIN record.sanitized_arguments) |-> "a name"],
     !.snapshot_id = None]

\* What a bundle shows of a log does not depend on any name in it: one whose
\* names are all the same gives the same bundle. And every record is there, in
\* order (preflight/redaction.py).
BundleIsBlindToNames ==
  bundle # None /\ bundle # DiagnosticsBundleError =>
    LET records == request.log.records
    IN /\ bundle.records = [i \in DOMAIN records |-> RedactAuditRecord(Blurred(records[i]))]
       /\ [i \in DOMAIN bundle.records |-> bundle.records[i].timestamp]
            = [i \in DOMAIN records |-> records[i].timestamp]

----------------------------------------------------------------------------
(* The numbers and the gates                                               *)

Numbers == metrics # None /\ metrics.metrics # <<>>

\* What the solve state says of the selected combination, and what the sweep
\* says of the named target, read off the snapshot without the gates.
SaysNoSolution(snap) ==
  LET state == snap.solve_state
  IN IF ~ IsRead(state) THEN state.reason = "no_solution"
     ELSE LET about == {i \in DOMAIN state.solution_exists :
                          /\ state.solution_exists[i].setup = snap.selection.setup
                          /\ state.solution_exists[i].sweep = snap.selection.sweep
                          /\ state.solution_exists[i].variation = snap.selection.variation}
          IN \E i \in about : about = {i} /\ ~ state.solution_exists[i].exists

SweepSpans(frequencies, target) ==
  /\ \E i \in DOMAIN frequencies : Leq(frequencies[i], target)
  /\ \E i \in DOMAIN frequencies : Leq(target, frequencies[i])

FiniteSweep(snap) ==
  \A i \in DOMAIN snap.solved_data.frequencies : Finite(snap.solved_data.frequencies[i])

\* No number goes out unless a gate was supplied; with all four supplied, none
\* goes out of a design known to have no solution or when the named target is
\* off the sweep; and since freshness never vouches, none goes out without a
\* caveat that names every gate that hedged (gates, assembler routing).
NoNumberIsUnvouched ==
  Numbers =>
    /\ request.supply # {}
    /\ request.supply = 1..4 =>
         /\ ~ SaysNoSolution(snapshot)
         /\ LET target == TestedTarget(snapshot, request.parameter).value
            IN target # None =>
                 SweepSpans(snapshot.solved_data.frequencies, target)
    /\ 3 \in request.supply => metrics.arm = "MetricsComputedWithCaveats"
    /\ \A i \in request.supply :
         gates[i].outcome # "pass" => gates[i] \in ToSet(metrics.gates)

MetricsOf(entries) == [i \in DOMAIN entries |-> entries[i].metric]

InMetricOrder(names) ==
  \A i, j \in DOMAIN names : i < j => Rank(names[i]) < Rank(names[j])

\* Each approved metric is either a record with a finite value or an omission
\* with its reason, once, both lists in the approved order, whatever values
\* had no place in a record; a metric of the target needs an intent; no part of
\* an impedance is shown for a reference impedance that is not finite; and for
\* one that is, and is not zero, a ratio is left out as non-physical exactly when
\* the resistance beside it has the other sign.
EveryMetricIsAccountedFor ==
  Numbers =>
    LET shown == MetricsOf(metrics.metrics)
        left == MetricsOf(metrics.omitted)
        z0 == request.reference_impedance
        resistance == {m \in ToSet(metrics.metrics) :
                         m.metric = "impedance_at_target_resistance"}
    IN /\ InMetricOrder(shown) /\ InMetricOrder(left)
       /\ ToSet(shown) \cup ToSet(left) = ToSet(MetricOrder)
       /\ ToSet(shown) \cap ToSet(left) = {}
       /\ \A m \in ToSet(metrics.metrics) :
            m.value \notin NonFinite \cup {ValueError}
       /\ snapshot.intent = None => ToSet(AtTargetMetrics) \subseteq ToSet(left)
       /\ ~ Finite(z0) => ToSet(SubSeq(MetricOrder, 6, 7)) \subseteq ToSet(left)
       /\ Finite(z0) /\ z0 # 0 =>
            (Omission("vswr_at_target", "non-physical") \in ToSet(metrics.omitted)
               <=> \E m \in resistance : m.value.num * z0 < 0)

\* The bandwidth shown is that of the longest run of samples at or below
\* -10 dB around the resonance shown, which no sample is deeper than and no
\* earlier one as deep as; it is left out only when no sample reaches -10 dB.
BandSurroundsResonance ==
  Numbers =>
    LET s11 == snapshot.solved_data.s_parameters[S11Key]
        frequencies == snapshot.solved_data.frequencies
        deep == {i \in DOMAIN s11 : AtMostMinus10dB(s11[i])}
        valueOf(name) == {m.value : m \in {r \in ToSet(metrics.metrics) : r.metric = name}}
        isRun(low, high) ==
          /\ low..high \subseteq deep
          /\ low - 1 \notin deep /\ high + 1 \notin deep
    IN \E r \in DOMAIN s11 :
         /\ valueOf("resonant_frequency") = {Hz(frequencies[r])}
         /\ \A i \in DOMAIN s11 : Magnitude(s11[r]) <= Magnitude(s11[i])
         /\ \A i \in 1..(r - 1) : Magnitude(s11[r]) < Magnitude(s11[i])
         /\ IF deep = {} THEN valueOf("minus_10db_bandwidth") = {}
            ELSE \E low \in 1..r, high \in r..Len(s11) :
                   /\ isRun(low, high)
                   /\ valueOf("minus_10db_bandwidth") = 
                        {Hz(frequencies[high] - frequencies[low])}

\* Coverage is judged only of a finite target against a sweep that was read,
\* and then says what the sweep says; a non-finite target is neither judged
\* nor replaced by the intent, and no value that is not finite is shown as a
\* number. A pass on the intent's own target is one the formulas can use.
CoverageJudgesRealTargets ==
  gates # None =>
    LET verdict == gates[4]
        asked == IF request.parameter # None THEN request.parameter ELSE snapshot.intent
        judged == verdict.outcome \in {"pass", "fail"}
        data == snapshot.solved_data
    IN /\ judged <=> verdict.applicability.held
       /\ judged <=> /\ asked # None /\ Finite(asked)
                     /\ IsRead(data) /\ data.frequencies # <<>>
       /\ judged /\ FiniteSweep(snapshot) =>
            (verdict.outcome = "pass" <=> SweepSpans(data.frequencies, asked))
       /\ Finite(verdict.observed.target_frequency_hz)
       /\ Finite(verdict.observed.intent_target_frequency_hz)
       /\ asked \in NonFinite => verdict.observed.rejected_target = asked
       /\ /\ verdict.outcome = "pass"
          /\ verdict.observed.target_source = "intent"
          /\ S11Key \in DOMAIN data.s_parameters
          /\ SeriesIsUsable(data.frequencies, data.s_parameters[S11Key])
          => TargetIsUsable(data.frequencies, data.s_parameters[S11Key], asked)

\* A ValueError of the formulas means the gates were skipped: it does not
\* arise when compute_metrics was handed all four of them (sparams.py).
GatesKeepPreconditions ==
  metrics # None /\ metrics.arm = "ValueError" => request.supply # 1..4

----------------------------------------------------------------------------
(* The findings                                                            *)

ArrivalsOf(entries, field) ==
  [i \in DOMAIN entries |-> <<entries[i][field], entries[i].position>>]

InArrivalOrder(places) ==
  \A i, j \in DOMAIN places : i < j =>
    \/ places[i][1] = GateStream /\ places[j][1] = EngineStream
    \/ places[i][1] = places[j][1] /\ places[i][2] < places[j][2]

\* Every finding that came on a stream is accepted or refused, once and in the
\* order it came, and the text shows each under the verdict it was given.
EveryCandidateIsDecidedOnce ==
  receipt # None =>
    LET kept == ArrivalsOf(receipt.accepted, "arrived_on")
        refused == ArrivalsOf(receipt.rejected, "arrived_on")
        came == ({GateStream} \X (0..3))
                  \cup ({EngineStream} \X (0..(Len(request.engine) - 1)))
        shown(kind) == Kept(text, {i \in DOMAIN text : text[i].kind = kind})
    IN /\ ToSet(kept) \cup ToSet(refused) = came
       /\ ToSet(kept) \cap ToSet(refused) = {}
       /\ InArrivalOrder(kept) /\ InArrivalOrder(refused)
       /\ text # None =>
            /\ [i \in DOMAIN shown("accepted") |-> shown("accepted")[i].of]
                 = receipt.accepted
            /\ [i \in DOMAIN shown("refused") |-> shown("refused")[i].of]
                 = receipt.rejected

\* What is in every set that holds the object and, with an object, all it holds.
HoldsItsOwn(nodes) == \A node \in nodes : ToSet(Heap[node].holds) \subseteq nodes

Reached(root) ==
  {node \in DOMAIN Heap :
     \A nodes \in SUBSET DOMAIN Heap :
       root \in nodes /\ HoldsItsOwn(nodes) => node \in nodes}

\* Nothing but plain values travels in an accepted finding, at any depth and
\* around any cycle, its source is the stream it came on and it carries every
\* kind of evidence; and a gate's own finding is refused only for what the
\* snapshot's signals brought into it.
OnlyValuesTravel ==
  receipt # None =>
    /\ \A i \in DOMAIN receipt.accepted :
         LET finding == receipt.accepted[i]
         IN /\ \A node \in Reached(finding.observed_values) \cup Reached(finding.conditions) :
                 Heap[node].type \in Containers \cup {"inert"}
            /\ finding.source = finding.arrived_on
            /\ finding.evidence = EvidenceFields
    /\ \A i \in DOMAIN receipt.rejected :
         receipt.rejected[i].arrived_on = GateStream =>
           /\ receipt.rejected[i].reason = "non_inert_value"
           /\ IsRead(snapshot.solve_state)
           /\ \E node \in Reached(snapshot.solve_state.available_signals) :
                Heap[node].type \notin Containers \cup {"inert"}

\* Two accepted findings are in one collision exactly when they share an id
\* that says something, whichever streams they came on, and the ones whose id
\* is blank are named instead; each is named at most once.
IdAnomaliesAreExact ==
  receipt # None =>
    LET accepted == receipt.accepted
        groups == receipt.id_collisions
        idAt(index) == accepted[index + 1].finding_id
    IN /\ \A i, j \in 0..(Len(accepted) - 1) : i < j =>
            ((\E g \in DOMAIN groups : {i, j} \subseteq ToSet(groups[g]))
               <=> idAt(i) = idAt(j) /\ idAt(i) \notin Blank)
       /\ \A g, h \in DOMAIN groups :
            g < h => /\ ToSet(groups[g]) \cap ToSet(groups[h]) = {}
                     /\ groups[g][1] < groups[h][1]
       /\ ToSet(receipt.unidentified) =
            {i \in 0..(Len(accepted) - 1) : idAt(i) \in Blank}

----------------------------------------------------------------------------
(* The exports                                                             *)

\* A Touchstone 1.0 reader of a file of n ports: a point is the lines from one
\* with a frequency to the next, its pairs fill the matrix row by row, two
\* ports in the format's own order.
DataLines(lines) == Kept(lines, {i \in DOMAIN lines : lines[i].mark = "data"})

PointStarts(lines) ==
  Kept([i \in DOMAIN lines |-> i], {i \in DOMAIN lines : lines[i].frequency # None})

PairsOfPoint(lines, k) ==
  LET starts == PointStarts(lines)
      last == IF k < Len(starts) THEN starts[k + 1] - 1 ELSE Len(lines)
  IN FlattenSeq([i \in 1..(last - starts[k] + 1) |-> lines[starts[k] + i - 1].pairs])

PlaceOfPair(ports, i) ==
  IF ports = 2 THEN <<((i - 1) % 2) + 1, (i - 1) \div 2 + 1>>
  ELSE <<(i - 1) \div ports + 1, ((i - 1) % ports) + 1>>

SampleAt(solved, place, point) ==
  LET key == CHOOSE k \in DOMAIN solved.s_parameters : <<k.row, k.column>> = place
  IN solved.s_parameters[key][point]

\* What an RFC 4180 reader makes of one field.
FieldRead(field) ==
  IF field = <<>> \/ field[1] # "quote" THEN field
  ELSE LET inner == SubSeq(field, 2, Len(field) - 1)
           second(i) == Cardinality({j \in 1..i : inner[j] = "quote"}) % 2 = 0
       IN Kept(inner, {i \in DOMAIN inner : inner[i] # "quote" \/ second(i)})

\* Either neither file is written, or each gives a reader back the whole matrix
\* at every swept frequency, with at most four pairs to a line and no line break
\* in what is written of the free text.
ExportReadsBack ==
  phase = "exported" =>
    LET solved == snapshot.solved_data
        lines == DataLines(touchstone)
        ports == Max({k.row : k \in DOMAIN solved.s_parameters})
    IN /\ touchstone = ExportContentError <=> csv = ExportContentError
       /\ touchstone # ExportContentError =>
            /\ Len(PointStarts(lines)) = Len(solved.frequencies)
            /\ \A k \in DOMAIN solved.frequencies :
                 /\ lines[PointStarts(lines)[k]].frequency = solved.frequencies[k]
                 /\ Len(PairsOfPoint(lines, k)) = ports * ports
                 /\ \A i \in 1..(ports * ports) :
                      /\ PairsOfPoint(lines, k)[i]
                           = SampleAt(solved, PlaceOfPair(ports, i), k)
                      /\ csv[k].samples[i] = SampleAt(solved, csv[k].columns[i], k)
                 /\ csv[k].frequency = solved.frequencies[k]
                 /\ ToSet(csv[k].columns) = (1..ports) \X (1..ports)
                 /\ FieldRead(csv[k].provenance) = Clean(request.provenance)
            /\ \A i \in DOMAIN touchstone :
                 /\ Len(touchstone[i].pairs) <= MaxPairsPerLine
                 /\ ToSet(touchstone[i].text) \cap Control = {}
=============================================================================
