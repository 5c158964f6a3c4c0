--------------------------- MODULE SessionLifecycle -------------------------
(***************************************************************************)
(* What the session promises the layers above it: a lifecycle of four      *)
(* states in which the selections change only because the user made one,   *)
(* because a re-verification dropped those it could not confirm, or        *)
(* because the session ended; and in which the environment is that of the  *)
(* attached process.  How a re-verification goes about it, and the         *)
(* adapter, are not visible here.                                          *)
(***************************************************************************)
EXTENDS SelectionChain

VARIABLES health, selections, environment

lifecycleVars == <<health, selections, environment>>

NoSelections == [f \in SelectionField |-> None]

Init ==
    /\ health = "DETACHED"
    /\ selections = NoSelections
    /\ environment = None

\* The user attaches; a failed attach leaves no session, whatever was there.
Attach(p) ==
    /\ health' = "ATTACHED"
    /\ selections' = [NoSelections EXCEPT !["process_id"] = p]
    /\ environment' = p

FailToAttach ==
    /\ health' = "DETACHED"
    /\ selections' = NoSelections
    /\ environment' = None

\* What a stage is selected by.
ValueOf(s) == IF s = "variation" THEN VariationHash ELSE Name

\* The user selects a stage: the stages above keep their selections, those
\* below lose theirs.
Select(s, value) ==
    /\ health = "ATTACHED"
    /\ s # "project" => selections[Upstream[s]] # None
    /\ selections' = [f \in SelectionField |->
            IF f = s THEN value
            ELSE IF f \in DownstreamOf[s] THEN None ELSE selections[f]]
    /\ UNCHANGED <<health, environment>>

\* A call did not complete: the session is no longer trusted.
Doubt ==
    /\ health = "ATTACHED"
    /\ health' = "SUSPECT"
    /\ UNCHANGED <<selections, environment>>

\* A re-verification trusts it again and keeps what it confirmed: everything,
\* or everything above some stage.
Recover ==
    /\ health = "SUSPECT"
    /\ health' = "ATTACHED"
    /\ \/ UNCHANGED selections
       \/ \E s \in Stage : selections' =
            [f \in SelectionField |-> IF f \in ClearFrom[s] THEN None ELSE selections[f]]
    /\ UNCHANGED environment

Lose ==
    /\ health \in {"ATTACHED", "SUSPECT"}
    /\ health' = "LOST"
    /\ selections' = NoSelections
    /\ environment' = None

Next ==
    \/ \E p \in Process : Attach(p)
    \/ FailToAttach
    \/ \E s \in Stage : \E v \in ValueOf(s) : Select(s, v)
    \/ Doubt
    \/ Recover
    \/ Lose

Spec == Init /\ [][Next]_lifecycleVars
=============================================================================
