------------------------------- MODULE Gating -------------------------------
(***************************************************************************)
(* The four validity gates of gating/, pure functions of a snapshot. Each  *)
(* always answers with a finding: what it cannot judge is an outcome.      *)
(* A finding keeps the fields a later reader decides on; the sentences     *)
(* are left out. Of the evidence, the targets of target_coverage are kept. *)
(***************************************************************************)
EXTENDS Values, FiniteSets

GateNames == <<"solution_exists", "convergence", "freshness", "target_coverage">>

Outcomes == {"pass", "fail", "warning", "not_evaluated", "insufficient_evidence"}

ClassificationByOutcome ==
  [outcome \in Outcomes |->
     CASE outcome = "fail" -> "error"
       [] outcome \in {"warning", "insufficient_evidence"} -> "warning"
       [] OTHER -> "judgment_call"]

\* held is derived from the conditions beside it, never passed in.
Applicability(conditions) ==
  [conditions |-> conditions,
   held |-> \A name \in DOMAIN conditions : conditions[name]]

\* Derived from content: four ids in one evaluation, the same in every other.
FindingId(gate, outcome) == <<"gate", gate, outcome>>

GateProvenance(snap) ==
  [snapshot_id |-> snap.snapshot_id, selection |-> snap.selection]

GateFinding(snap, gate, outcome, conditions, observed) ==
  [source |-> "gate", rule |-> gate, finding_id |-> FindingId(gate, outcome),
   outcome |-> outcome, classification |-> ClassificationByOutcome[outcome],
   applicability |-> Applicability(conditions), observed |-> observed,
   provenance |-> GateProvenance(snap)]

IsRead(part) == part.arm \in {"SolveState", "SolvedData"}

NoObservation == [name \in {} |-> None]

----------------------------------------------------------------------------
(* solution_exists *)

SolutionAbsence(reason) ==
  IF reason = "no_solution" THEN "fail" ELSE "insufficient_evidence"

\* Exactly one flag must be about the selected setup, sweep and variation.
MatchingFlags(snap) ==
  LET flags == snap.solve_state.solution_exists
  IN {i \in DOMAIN flags : /\ flags[i].setup = snap.selection.setup
                          /\ flags[i].sweep = snap.selection.sweep
                          /\ flags[i].variation = snap.selection.variation}

SolutionExistsFromState(snap) ==
  LET flags == snap.solve_state.solution_exists
      matching == MatchingFlags(snap)
      matched == Cardinality(matching) = 1
  IN GateFinding(snap, "solution_exists",
       IF ~ matched THEN "insufficient_evidence"
       ELSE IF flags[CHOOSE i \in matching : TRUE].exists THEN "pass" ELSE "fail",
       [solve_state_readable |-> TRUE, selection_matched |-> matched],
       [entries_reported |-> Len(flags), matching_entries |-> Cardinality(matching)])

SolutionExistsFromAbsence(snap) ==
  GateFinding(snap, "solution_exists", SolutionAbsence(snap.solve_state.reason),
    [solve_state_readable |-> FALSE, selection_matched |-> FALSE],
    [reason |-> snap.solve_state.reason])

SolutionExists(snap) ==
  IF IsRead(snap.solve_state) THEN SolutionExistsFromState(snap)
  ELSE SolutionExistsFromAbsence(snap)

----------------------------------------------------------------------------
(* convergence *)

StatusOutcome(status) == IF status = "converged" THEN "pass" ELSE "warning"

ConvergenceFromState(snap) ==
  GateFinding(snap, "convergence", StatusOutcome(snap.solve_state.convergence_status),
    [solve_state_readable |-> TRUE],
    [convergence_status |-> snap.solve_state.convergence_status])

ConvergenceFromAbsence(snap) ==
  GateFinding(snap, "convergence", "insufficient_evidence",
    [solve_state_readable |-> FALSE], [reason |-> snap.solve_state.reason])

Convergence(snap) ==
  IF IsRead(snap.solve_state) THEN ConvergenceFromState(snap)
  ELSE ConvergenceFromAbsence(snap)

----------------------------------------------------------------------------
(* freshness: no field can carry a determination, so it never vouches. The *)
(* signals travel as they are, objects among them.                         *)

DeterminationIsReadable == FALSE

FreshnessFromState(snap) ==
  GateFinding(snap, "freshness", "insufficient_evidence",
    [solve_state_readable |-> TRUE,
     freshness_determinable |-> snap.solve_state.determinable,
     determination_is_readable |-> DeterminationIsReadable],
    [available_signals |-> snap.solve_state.available_signals])

FreshnessFromAbsence(snap) ==
  GateFinding(snap, "freshness", "insufficient_evidence",
    [solve_state_readable |-> FALSE, freshness_determinable |-> FALSE,
     determination_is_readable |-> DeterminationIsReadable],
    [reason |-> snap.solve_state.reason])

Freshness(snap) ==
  IF IsRead(snap.solve_state) THEN FreshnessFromState(snap)
  ELSE FreshnessFromAbsence(snap)

----------------------------------------------------------------------------
(* target_coverage *)

\* The caller's target, then the intent's; a non-finite one is refused after
\* precedence and never replaced by the other.
NamedTarget(snap, parameter) ==
  IF parameter # None THEN [value |-> parameter, source |-> "parameter"]
  ELSE IF snap.intent # None THEN [value |-> snap.intent, source |-> "intent"]
  ELSE [value |-> None, source |-> None]

\* Mutant: the intent answers for a parameter that is not finite.
TestedTargetFallingBack(snap, parameter) ==
  LET named == NamedTarget(snap, IF Finite(parameter) THEN parameter ELSE None)
  IN IF Finite(named.value) THEN named ELSE [value |-> None, source |-> None]

TestedTarget(snap, parameter) ==
  LET named == NamedTarget(snap, parameter)
  IN IF Finite(named.value) THEN named ELSE [value |-> None, source |-> None]

RejectedTarget(snap, parameter) ==
  LET named == NamedTarget(snap, parameter)
  IN IF Finite(named.value) THEN [value |-> None, source |-> None] ELSE named

FiniteIntent(snap) == IF Finite(snap.intent) THEN snap.intent ELSE None

\* What the finding shows. "numbers" travel as numbers; a rejected target is
\* shown as text, under a key of its own.
TargetEvidence(snap, parameter) ==
  LET tested == TestedTarget(snap, parameter)
      intentTravels == \/ tested.source = "parameter"
                       \/ RejectedTarget(snap, parameter).value # None
  IN [target_frequency_hz |-> tested.value,
      target_source |-> tested.source,
      rejected_target |-> RejectedTarget(snap, parameter).value,
      intent_target_frequency_hz |-> IF intentTravels THEN FiniteIntent(snap) ELSE None]

Covered(frequencies, target) ==
  Leq(Least(frequencies), target) /\ Leq(target, Greatest(frequencies))

CoverageFromData(snap, parameter) ==
  LET frequencies == snap.solved_data.frequencies
      target == TestedTarget(snap, parameter).value
      judged == frequencies # <<>> /\ target # None
  IN GateFinding(snap, "target_coverage",
       IF ~ judged THEN "insufficient_evidence"
       ELSE IF Covered(frequencies, target) THEN "pass" ELSE "fail",
       [solved_data_readable |-> TRUE, sweep_non_empty |-> frequencies # <<>>,
        target_supplied |-> target # None],
       TargetEvidence(snap, parameter))

CoverageFromAbsence(snap, parameter) ==
  GateFinding(snap, "target_coverage", "insufficient_evidence",
    [solved_data_readable |-> FALSE, sweep_non_empty |-> FALSE,
     target_supplied |-> TestedTarget(snap, parameter).value # None],
    TargetEvidence(snap, parameter))

TargetCoverage(snap, parameter) ==
  IF IsRead(snap.solved_data) THEN CoverageFromData(snap, parameter)
  ELSE CoverageFromAbsence(snap, parameter)

----------------------------------------------------------------------------
\* The explicit target reaches target_coverage alone.
EvaluateGates(snap, parameter) ==
  <<SolutionExists(snap), Convergence(snap), Freshness(snap),
    TargetCoverage(snap, parameter)>>
=============================================================================
