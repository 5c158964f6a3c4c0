SPECIFICATION FairServerSpec
CONSTANTS
    None = None
    Process = {p1}
    Name = {n1, n2}
    Path = {path}
    SolutionType = {driven}
    VariationHash = {h}
    HashOf <- MCHashOf
    Clean <- MCClean
    Client = {c1, c2}
    Sections <- MCSections
    Unknown = "notes"
INVARIANTS ServerInv StampIsOfTheRead ReadIsAnswered EverySectionIsReported
PROPERTIES RecordsOfACallAreTogether HolderReleases
