\* Abandoned workers write whenever they like, and requests return all the same.
SPECIFICATION FairRequestSpec
CONSTANTS
    None = None
    Process = {p1}
    Name <- MCName
    Path = {path1}
    SolutionType = {modal}
    VariationHash <- MCVariationHash
    HashOf <- MCHashOf
    Clean <- MCClean
    Choices <- TwoDesigns
    MaxOrphans = 1
    LateOrphans = TRUE
INVARIANTS
    LifeInv
    EnvironmentIffConnected
PROPERTIES
    VerifyConcludes
    RequestsMoveTheStatus
    RequestReturns
