----------------------------- MODULE MCVerdicts -----------------------------
(* Families of requests, each varying one side of a request that is whole. *)
EXTENDS Verdicts, TLC

CONSTANTS plain, cycle, nested, handle, engineId, blankId, customerName

\* The objects untyped fields reach: a plain value, a list that holds
\* itself, a dictionary that holds it and a live handle, and the handle.
MCHeap ==
  plain :> [type |-> "inert", holds |-> <<>>]
  @@ cycle :> [type |-> "list", holds |-> <<plain, cycle, plain>>]
  @@ nested :> [type |-> "dict", holds |-> <<handle, nested, cycle>>]
  @@ handle :> [type |-> "handle", holds |-> <<>>]

MCSections == {"variables", "setups"}
MCBlank == {blankId}
MCRegistered == {"select", "export"}

----------------------------------------------------------------------------
Sample(re, im) == [re |-> re, im |-> im]
Zero == Sample(0, 0)
Deep == Sample(1, 0)
Mid == Sample(2, 1)
One == Sample(4, 0)
Minus == Sample(-4, 0)
Over == Sample(5, 0)

S11Data(frequencies, s11) ==
  [arm |-> "SolvedData", frequencies |-> frequencies, s_parameters |-> S11Key :> s11]

Absent(reason) == [arm |-> "SolveDataUnavailable", reason |-> reason]

Reasons == {"no_solution", "not_exposed_by_pyaedt", "not_found_in_design",
            "unrecognised_by_wrapper"}

Flag(setup, exists) ==
  [setup |-> setup, sweep |-> "Sweep1", variation |-> "v", exists |-> exists]

State(flags, status, determinable, signals) ==
  [arm |-> "SolveState", solution_exists |-> flags, convergence_status |-> status,
   determinable |-> determinable, available_signals |-> signals]

Chain ==
  [process_id |-> "p", project |-> [name |-> "patch", path |-> "dir"],
   design |-> "d", solution_type |-> "DrivenModal", setup |-> "Setup1",
   sweep |-> "Sweep1", variation |-> "v"]

Held ==
  [selection |-> Chain,
   inspection |-> [arm |-> "InspectionResult", sections |-> [s \in MCSections |-> "ok"]],
   native_validation |-> [arm |-> "NativeValidationBlock", validation |-> "output"],
   solve_state |-> State(<<Flag("Setup1", TRUE)>>, "converged", FALSE, plain),
   solved_data |-> S11Data(<<1, 2, 4>>, <<Mid, Deep, Mid>>),
   intent |-> None]

Root(prefix, digits, holdsAedt) ==
  [prefix |-> prefix, digits |-> digits, holdsAedt |-> holdsAedt]

Machine ==
  [roots |-> {Root("ANSYSEM_ROOT", 261, TRUE)},
   pyaedt |-> [installed |-> TRUE, version |-> <<1, 2>>],
   python |-> <<3, 12>>, importable |-> TRUE]

Request ==
  [adapter |-> None, machine |-> Machine, environment |-> None, log |-> None,
   held |-> Held, parameter |-> None, supply |-> 1..4, engine |-> <<>>,
   reference_impedance |-> 50, provenance |-> <<"a">>]

With(held) == [Request EXCEPT !.held = held]

----------------------------------------------------------------------------
\* Every series of three samples, at no target, at a swept one and at one
\* between two samples; every series of five for the band.
MetricRequests ==
  {With([Held EXCEPT !.solved_data = S11Data(<<1, 2, 4>>, s), !.intent = target]) :
     s \in [1..3 -> {Zero, Deep, Mid, One, Minus, Over}], target \in {None, 2, 3}}
  \cup
  {With([Held EXCEPT !.solved_data = S11Data(<<1, 2, 3, 4, 5>>, s)]) :
     s \in [1..5 -> {Zero, Deep, Mid}]}

\* A reference impedance is an unconstrained float.
ImpedanceRequests ==
  {[With([Held EXCEPT !.solved_data = S11Data(<<1, 3>>, s), !.intent = target])
      EXCEPT !.reference_impedance = z0] :
     s \in [1..2 -> {Zero, Mid, One, Minus, Over}], target \in {None, 2, 3},
     z0 \in {1, 0, -50, NaN, PosInf}}

Sweeps == {<<>>, <<2>>, <<1, 3>>, <<NaN, 2, 3>>, <<2, NaN, 3>>, <<3, 1>>}

TargetRequests ==
  {[With([Held EXCEPT !.solved_data = S11Data(sweep, [i \in DOMAIN sweep |-> Mid]),
                      !.intent = intent]) EXCEPT !.parameter = parameter] :
     sweep \in Sweeps, intent \in {None, 2, 9, NaN, PosInf, NegInf},
     parameter \in {None, 2, 9, NaN, PosInf}}

\* Series the formulas refuse, though the gates do not look at them.
BrokenSeries ==
  {With([Held EXCEPT !.solved_data = data, !.intent = target]) :
     data \in {S11Data(<<1, 2>>, <<Mid>>), S11Data(<<1, 2>>, <<Mid, Sample(NaN, 0)>>),
               [S11Data(<<1>>, <<Mid>>) EXCEPT !.s_parameters =
                  [row |-> 1, column |-> 1, spelling |-> "padded"] :> <<Mid>>]},
     target \in {None, 1}}

SolveStates ==
  {State(flags, status, determinable, plain) :
     flags \in {<<>>, <<Flag("Setup1", FALSE)>>, <<Flag("Setup2", FALSE), Flag("Setup1", TRUE)>>,
                <<Flag("Setup2", FALSE)>>, <<Flag("Setup1", TRUE), Flag("Setup1", FALSE)>>},
     status \in {"converged", "stopped"}, determinable \in BOOLEAN}
  \cup {Absent(reason) : reason \in Reasons}

RoutingRequests ==
  {[With([Held EXCEPT !.solve_state = state]) EXCEPT !.supply = supply] :
     state \in SolveStates, supply \in {1..4, {}, {1, 2}, {1, 2, 4}, {3}}}
  \cup {With([Held EXCEPT !.solved_data = Absent(reason)]) : reason \in Reasons}

AssemblyRequests ==
  {With([Held EXCEPT !.selection[stage] = None]) : stage \in RequiredStages}
  \cup
  {With([Held EXCEPT !.inspection = i, !.native_validation = n]) :
     i \in {Held.inspection, [arm |-> "CannotEvaluate"],
            [arm |-> "InspectionResult", sections |-> [s \in {"setups"} |-> "ok"]]},
     n \in {Held.native_validation, [arm |-> "NativeValidationUnavailable"],
            [arm |-> "SelectionRefused"]}}

----------------------------------------------------------------------------
Key(place) == [row |-> place[1], column |-> place[2], spelling |-> "plain"]

\* Each entry of the matrix is told from every other.
Matrix(ports, points) ==
  [key \in {Key(place) : place \in (1..ports) \X (1..ports)} |->
     [i \in 1..points |-> Sample(10 * key.row + key.column, i)]]

Padded(row, column, points) ==
  [row |-> row, column |-> column, spelling |-> "padded"]
    :> [i \in 1..points |-> Sample(0, 0)]

Matrices ==
  {Matrix(ports, 2) : ports \in {1, 2, 3, 5}}
  \cup {Matrix(2, 2) @@ Padded(1, 2, 2), Matrix(2, 2) @@ Padded(0, 1, 2),
        Matrix(2, 2) @@ Padded(3, 1, 2), Matrix(1, 2) @@ Padded(2, 2, 1), Matrix(1, 1),
        [spelling |-> "other", row |-> 1, column |-> 1] :> <<Zero, Zero>>}

ExportRequests ==
  {[With([Held EXCEPT !.solved_data =
            [arm |-> "SolvedData", frequencies |-> <<1, 2>>, s_parameters |-> m]])
      EXCEPT !.supply = {}, !.provenance = free] :
     m \in Matrices,
     free \in {<<>>, <<"a", "newline", "a">>, <<"comma", "a">>, <<"quote", "comma", "quote">>}}

----------------------------------------------------------------------------
Candidate ==
  [class |-> "Finding", reduces |-> "plain", validates |-> "ok", claim |-> "text",
   source |-> EngineStream, finding_id |-> engineId, observed_values |-> cycle,
   conditions |-> plain, evidence |-> EvidenceFields, suggests |-> FALSE]

GateId == FindingId("convergence", "pass")

Candidates ==
  {Candidate,
   [Candidate EXCEPT !.class = "raises", !.claim = "raises"],
   [Candidate EXCEPT !.class = "dict"],
   [Candidate EXCEPT !.reduces = "raises", !.suggests = TRUE],
   [Candidate EXCEPT !.validates = "error", !.claim = "number"],
   [Candidate EXCEPT !.validates = "raises"],
   [Candidate EXCEPT !.observed_values = nested],
   [Candidate EXCEPT !.conditions = handle, !.evidence = {}],
   [Candidate EXCEPT !.evidence = EvidenceFields \ {"inspected"}, !.source = GateStream],
   [Candidate EXCEPT !.source = GateStream],
   [Candidate EXCEPT !.finding_id = blankId, !.suggests = TRUE],
   [Candidate EXCEPT !.finding_id = GateId]}

Batches ==
  UNION {[1..n -> Candidates] : n \in 0..2}
  \cup [1..3 -> {Candidate, [Candidate EXCEPT !.finding_id = blankId],
                 [Candidate EXCEPT !.finding_id = GateId]}]

FindingRequests ==
  {[With([Held EXCEPT !.solve_state.available_signals = signals]) EXCEPT !.engine = batch] :
     signals \in {plain, cycle, nested}, batch \in Batches}

Adapters ==
  {None} \cup {[word |-> word] : word \in {"live", "fake", "", "fkae"}}

\* Two variables of one release, roots of two releases on either side of the
\* floor, one that holds no AEDT, and the releases before 2020.
RootSets ==
  {{}, {Root("ANSYSEM_ROOT", 212, TRUE)}, {Root("AWP_ROOT", 222, TRUE)},
   {Root("AWP_ROOT", 222, FALSE)}, {Root("ANSYSEMSV_ROOT", 192, TRUE)},
   {Root("ANSYSEM_ROOT", 193, TRUE), Root("AWP_ROOT", 261, FALSE)},
   {Root("ANSYSEM_ROOT", 261, TRUE), Root("AWP_ROOT", 261, TRUE)},
   {Root("ANSYSEM_ROOT", 212, TRUE), Root("ANSYSEM_ROOT", 271, TRUE)},
   {Root("ANSYSEM_ROOT", 202, TRUE), Root("ANSYSEM_ROOT", 221, TRUE)}}

Metadata ==
  {[installed |-> FALSE, version |-> None]}
  \cup {[installed |-> TRUE, version |-> v] :
          v \in {None, Unparseable, <<0, 26>>, <<1, 2>>, <<1, 3>>}}

MachineRequests ==
  {[Request EXCEPT !.adapter = a, !.environment = e,
                   !.machine = [Machine EXCEPT !.roots = r, !.pyaedt = m]] :
     a \in Adapters, r \in RootSets, m \in Metadata,
     e \in {None} \cup {[aedt_version |-> v] :
                          v \in {Unparseable, <<2021, 2>>, <<2025, 1>>}}}
  \cup
  {[Request EXCEPT !.machine = [Machine EXCEPT !.python = p, !.importable = i]] :
     p \in {Unparseable, <<3, 9>>, <<3, 10>>, <<3, 13>>, <<4, 0>>}, i \in BOOLEAN}

LogRecord(timestamp, name, set, arguments) ==
  [timestamp |-> timestamp, tool_name |-> name, risk_tier |-> "read",
   outcome |-> "ok", duration |-> 1, session_degraded |-> FALSE,
   selection_state |->
     [key \in SelectionKeys |-> IF key \in set THEN customerName ELSE None],
   sanitized_arguments |-> [key \in arguments |-> customerName],
   snapshot_id |-> customerName]

Histories ==
  UNION {[1..n -> {LogRecord(n, name, set, arguments) :
                     name \in {"select", "customer_report"},
                     set \in {{}, {"project", "variation"}, SelectionKeys},
                     arguments \in {{}, {"choice"}, {"choice", "customer_reference"}}}] :
           n \in 0..2}

BundleRequests ==
  {[Request EXCEPT !.log = [records |-> [i \in DOMAIN h |-> [h[i] EXCEPT !.timestamp = i]],
                            torn_tail |-> torn, corrupt_lines |-> IF torn THEN <<1>> ELSE <<>>]] :
     h \in Histories, torn \in BOOLEAN}

MCRequests ==
  MachineRequests \cup BundleRequests \cup MetricRequests \cup ImpedanceRequests
    \cup TargetRequests \cup BrokenSeries \cup RoutingRequests
    \cup AssemblyRequests \cup ExportRequests \cup FindingRequests
=============================================================================
