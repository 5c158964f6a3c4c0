------------------------------ MODULE Metrics -------------------------------
(***************************************************************************)
(* metrics/assembler.py: what the gates allow to be computed, how the six  *)
(* formulas become seven records, and where a value goes that no record    *)
(* can carry. Raising is an arm of the result here.                        *)
(***************************************************************************)
EXTENDS Sparams

\* The key by its exact spelling: S(01,1) is another one.
S11Key == [row |-> 1, column |-> 1, spelling |-> "plain"]

MetricOrder ==
  <<"s11_min", "resonant_frequency", "minus_10db_bandwidth", "s11_at_target",
    "vswr_at_target", "impedance_at_target_resistance",
    "impedance_at_target_reactance">>

AtTargetMetrics == SubSeq(MetricOrder, 4, 7)

Qualifying == {"warning", "insufficient_evidence"}

Value(metric, value) == [metric |-> metric, value |-> value]

Hz(frequency) == [hz |-> frequency]

Omission(metric, reason) == [metric |-> metric, reason |-> reason]

ASSUME ReasonAssumption == "non-physical" \notin NonFinite

NoOmission == <<>>

----------------------------------------------------------------------------
NotPassing(findings) ==
  Kept(findings, {i \in DOMAIN findings : findings[i].outcome # "pass"})

\* Mutant: one gate that does not refuse is enough.
RoutesToRefusalOfAll(findings) ==
  \A i \in DOMAIN findings : findings[i].outcome \notin Qualifying \cup {"pass"}

\* An allow-list: whatever is neither a pass nor a hedge refuses, and so does
\* no finding at all.
RoutesToRefusal(findings) ==
  \/ findings = <<>>
  \/ \E i \in DOMAIN findings : findings[i].outcome \notin Qualifying \cup {"pass"}

----------------------------------------------------------------------------
(* The values and the stated omissions, in the order they are computed.    *)

SweepValues(frequencies, s11) ==
  LET band == Minus10dBBandwidth(frequencies, s11)
      always == <<Value("s11_min", S11Min(s11)),
                  Value("resonant_frequency", Hz(ResonantFrequency(frequencies, s11)))>>
  IN IF band = NoBand
     THEN [values |-> always,
           omissions |-> <<Omission("minus_10db_bandwidth", "no band")>>]
     ELSE [values |-> Append(always, Value("minus_10db_bandwidth", Hz(band.width))),
           omissions |-> NoOmission]

VswrPart(frequencies, s11, target) ==
  LET ratio == VswrAtTarget(frequencies, s11, target)
  IN IF ratio = ValueError
     THEN [values |-> <<>>, omissions |-> <<Omission("vswr_at_target", "non-physical")>>]
     ELSE [values |-> <<Value("vswr_at_target", ratio)>>, omissions |-> NoOmission]

\* One complex number, two records; or two omissions with one reason.
ImpedancePart(frequencies, s11, target, z0) ==
  LET impedance == ImpedanceAtTarget(frequencies, s11, target, z0)
      parts == SubSeq(MetricOrder, 6, 7)
  IN IF impedance = ValueError
     THEN [values |-> <<>>,
           omissions |-> [i \in 1..2 |-> Omission(parts[i], "unbounded")]]
     ELSE [values |-> <<Value(parts[1], impedance.re), Value(parts[2], impedance.im)>>,
           omissions |-> NoOmission]

ComputedValues(frequencies, s11, intent, z0) ==
  LET sweep == SweepValues(frequencies, s11)
      level == S11AtTarget(frequencies, s11, intent)
      ratio == VswrPart(frequencies, s11, intent)
      impedance == ImpedancePart(frequencies, s11, intent, z0)
  IN IF intent = None
     THEN [values |-> sweep.values,
           omissions |-> sweep.omissions
             \o [i \in 1..4 |-> Omission(AtTargetMetrics[i], "no intent")]]
     ELSE [values |-> sweep.values \o <<Value("s11_at_target", level)>>
             \o ratio.values \o impedance.values,
           omissions |-> sweep.omissions \o ratio.omissions \o impedance.omissions]

\* The formulas outside a try: their ValueError leaves the function.
PreconditionFails(frequencies, s11, intent) ==
  \/ ~ SeriesIsUsable(frequencies, s11)
  \/ intent # None /\ ~ TargetIsUsable(frequencies, s11, intent)

----------------------------------------------------------------------------
Record(value, status) ==
  [metric |-> value.metric, value |-> value.value, gate_status |-> status]

FiniteRecords(values, status) ==
  LET finite == Kept(values, {i \in DOMAIN values : Finite(values[i].value)})
  IN [i \in DOMAIN finite |-> Record(finite[i], status)]

\* Mutant: a value no record can carry is dropped without a word.
NonFiniteUnstated(values) == <<>>

NonFiniteOmissions(values) ==
  LET refused == Kept(values, {i \in DOMAIN values : ~ Finite(values[i].value)})
  IN [i \in DOMAIN refused |-> Omission(refused[i].metric, refused[i].value)]

Rank(metric) == CHOOSE i \in DOMAIN MetricOrder : MetricOrder[i] = metric

\* A stable sort by rank, and no metric is omitted twice.
Ordered(omissions) ==
  LET of(rank) ==
        Kept(omissions, {i \in DOMAIN omissions : Rank(omissions[i].metric) = rank})
      upTo[rank \in 0..Len(MetricOrder)] ==
        IF rank = 0 THEN <<>> ELSE upTo[rank - 1] \o of(rank)
  IN upTo[Len(MetricOrder)]

----------------------------------------------------------------------------
MetricsRefused(findings) ==
  [arm |-> "MetricsRefused", metrics |-> <<>>, omitted |-> <<>>,
   gates |-> NotPassing(findings)]

Raised(error) == [arm |-> error, metrics |-> <<>>, omitted |-> <<>>, gates |-> <<>>]

GateStatus(findings) ==
  IF NotPassing(findings) = <<>> THEN "all_gates_passed" ELSE "some_gates_hedged"

Computed(findings, frequencies, s11, intent, z0) ==
  LET computed == ComputedValues(frequencies, s11, intent, z0)
      records == FiniteRecords(computed.values, GateStatus(findings))
  IN IF records = <<>> THEN Raised("MetricsAssemblyError")
     ELSE [arm |-> IF NotPassing(findings) = <<>> THEN "MetricsComputed"
                   ELSE "MetricsComputedWithCaveats",
           metrics |-> records,
           omitted |-> Ordered(computed.omissions \o NonFiniteOmissions(computed.values)),
           gates |-> NotPassing(findings)]

\* compute_metrics: z0 is the reference impedance of the provenance. The band and
\* the sample count that its text also shows are left out.
ComputeMetrics(findings, solved, intent, z0) ==
  CASE RoutesToRefusal(findings) -> MetricsRefused(findings)
    [] ~ RoutesToRefusal(findings) /\ S11Key \notin DOMAIN solved.s_parameters ->
         Raised("MetricsAssemblyError")
    [] OTHER ->
         LET s11 == solved.s_parameters[S11Key]
         IN IF PreconditionFails(solved.frequencies, s11, intent)
            THEN Raised("ValueError")
            ELSE Computed(findings, solved.frequencies, s11, intent, z0)
=============================================================================
