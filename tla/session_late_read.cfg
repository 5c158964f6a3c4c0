\* An abandoned worker writes after the re-verification that should catch it.
SPECIFICATION Spec
CONSTANTS
    None = None
    Process = {p1}
    Name <- MCName
    Path = {path1}
    SolutionType = {modal}
    VariationHash <- MCVariationHash
    HashOf <- MCHashOf
    Clean <- MCClean
    Choices <- TwoDesigns
    MaxOrphans = 1
    LateOrphans = TRUE
INVARIANTS VerifiedReadIsOfStampedDesign
