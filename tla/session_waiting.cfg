\* Callers wait for abandoned workers: what the SUSPECT protocol repairs.
SPECIFICATION Spec
CONSTANTS
    None = None
    Process = {p1, p2}
    Name <- MCName
    Path = {path1, path2}
    SolutionType = {modal, terminal}
    VariationHash <- MCVariationHash
    HashOf <- MCHashOf
    Clean <- MCClean
    Choices <- AllStages
    MaxOrphans = 1
    LateOrphans = FALSE
SYMMETRY ProcessSymmetry
INVARIANTS
    ScopeInv
    GuidedOrder
    ScopeAgreement
    ServedUnderItsStamp
PROPERTIES
    ImplementsLifecycle
