--------------------------- MODULE SelectionChain ---------------------------
(***************************************************************************)
(* The guided selection chain  process -> project -> design -> setup ->    *)
(* sweep -> variation  that the session and the adapter both keep, and the *)
(* tables each of them uses to clear it.  A chain is a function from its   *)
(* fields to a value or None; Project(name, path) is the two fields        *)
(* "project" and "path", and a variation is held as its hash.              *)
(***************************************************************************)

CONSTANTS
    None,          \* Python's None
    Process,       \* AEDT process ids
    Name,          \* names and tokens a caller can pass for a stage
    Path,          \* project paths AEDT can report ("" included)
    SolutionType,  \* solution types AEDT can report
    VariationHash, \* hashes a variation token resolves to
    HashOf,        \* HashOf[token]: the hash the token resolves to
    Clean          \* Clean[name]: the name after sanitize_str

\* Sanitising strips control characters and caps the length: doing it twice
\* changes nothing more.  None is no value of any field.
ASSUME ChainAssumption ==
    /\ HashOf \in [Name -> VariationHash]
    /\ Clean \in [Name -> Name]
    /\ \A n \in Name : Clean[Clean[n]] = Clean[n]
    /\ None \notin Process \union Name \union Path
                   \union SolutionType \union VariationHash

Stage == {"project", "design", "setup", "sweep", "variation"}

\* The stage that must be selected before a stage; a project needs none.
Upstream == [project |-> "process_id", design |-> "project",
             setup |-> "design", sweep |-> "setup", variation |-> "sweep"]

\* The stage the guided walk visits next; "end" after the last one.
NextStage == [project |-> "design", design |-> "setup", setup |-> "sweep",
              sweep |-> "variation", variation |-> "end"]

Field == {"process_id", "project", "path", "design", "solution_type",
          "setup", "sweep", "variation"}

NameField == {"project", "design", "setup", "sweep"}

Value == Process \union Name \union Path \union SolutionType
                 \union VariationHash \union {None}

Chain == {c \in [Field -> Value] :
            /\ c["process_id"] \in Process \union {None}
            /\ \A f \in NameField : c[f] \in Name \union {None}}

EmptyChain == [f \in Field |-> None]

OnlyProcess(p) == [EmptyChain EXCEPT !["process_id"] = p]

-----------------------------------------------------------------------------
(* The adapter's downstream_reset and the session's _CLEAR_FROM.           *)

DownstreamOf ==
    [project   |-> {"design", "solution_type", "setup", "sweep", "variation"},
     design    |-> {"setup", "sweep", "variation"},
     setup     |-> {"sweep", "variation"},
     sweep     |-> {"variation"},
     variation |-> {}]

\* Mutant: the reset clears the stage and not what is below it.
ClearFromOnly ==
    [project   |-> {"project", "path"},
     design    |-> {"design", "solution_type"},
     setup     |-> {"setup"},
     sweep     |-> {"sweep"},
     variation |-> {"variation"}]

ClearFrom ==
    [project   |-> {"project", "path", "design", "solution_type",
                    "setup", "sweep", "variation"},
     design    |-> {"design", "solution_type", "setup", "sweep", "variation"},
     setup     |-> {"setup", "sweep", "variation"},
     sweep     |-> {"sweep", "variation"},
     variation |-> {"variation"}]

Cleared(c, fields) == [f \in Field |-> IF f \in fields THEN None ELSE c[f]]

\* Mutant: a selection that clears nothing below it.
WithStageKeeping(c, stage, value) == [c EXCEPT ![stage] = value]

\* The chain after a stage is (re)selected: the stage is set, everything
\* below it is cleared.
WithStage(c, stage, value) ==
    [Cleared(c, DownstreamOf[stage]) EXCEPT ![stage] = value]

\* sanitize_result over a chain: every name is cleaned, the rest kept.
Sanitized(c) ==
    [f \in Field |-> IF f \in NameField /\ c[f] # None THEN Clean[c[f]] ELSE c[f]]

\* Both chains scope reads to the same process and the same selections.  A
\* project's path and a design's solution type are what AEDT last reported for
\* those selections, not selections.
SelectionField == {"process_id"} \union Stage

SameSelection(c, d, fields) == \A f \in fields : c[f] = d[f]
=============================================================================
