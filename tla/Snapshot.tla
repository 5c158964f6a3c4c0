------------------------------ MODULE Snapshot ------------------------------
(***************************************************************************)
(* snapshot/assembler.py: the pieces a caller already holds, composed into *)
(* one DesignSnapshot or refused. It reads nothing itself.                 *)
(***************************************************************************)
EXTENDS Values

CONSTANT RequiredSections

RequiredStages ==
  {"process_id", "project", "design", "solution_type", "setup", "sweep", "variation"}

SnapshotAssemblyError(input) == [arm |-> "SnapshotAssemblyError", input |-> input]

\* A chain stage that was never chosen leaves nothing to narrow to.
SelectionIsWhole(chain) == \A stage \in RequiredStages : chain[stage] # None

\* The project keeps its name; its path stays behind.
Selection(chain) ==
  [stage \in RequiredStages |->
     IF stage = "project" THEN chain.project.name ELSE chain[stage]]

InspectionIsWhole(result) ==
  result.arm = "InspectionResult" /\ RequiredSections \subseteq DOMAIN result.sections

Inspection(result) == [name \in RequiredSections |-> result.sections[name]]

NativeValidationIsUsable(block) ==
  block.arm \in {"NativeValidationBlock", "NativeValidationUnavailable"}

NativeValidation(block) ==
  IF block.arm = "NativeValidationUnavailable" THEN block ELSE block.validation

\* The first input that cannot be narrowed decides the refusal, and the id is
\* minted only after the last of them.
AssembleSnapshot(held, id) ==
  CASE ~ SelectionIsWhole(held.selection) -> SnapshotAssemblyError("selection")
    [] /\ SelectionIsWhole(held.selection)
       /\ ~ InspectionIsWhole(held.inspection) -> SnapshotAssemblyError("inspection")
    [] /\ SelectionIsWhole(held.selection)
       /\ InspectionIsWhole(held.inspection)
       /\ ~ NativeValidationIsUsable(held.native_validation) ->
         SnapshotAssemblyError("native_validation")
    [] OTHER ->
         [arm |-> "DesignSnapshot",
          snapshot_id |-> id,
          selection |-> Selection(held.selection),
          inspection |-> Inspection(held.inspection),
          native_validation |-> NativeValidation(held.native_validation),
          solve_state |-> held.solve_state,
          solved_data |-> held.solved_data,
          intent |-> held.intent]
=============================================================================
